---- MODULE Spec2Model ----
(***************************************************************************)
(* CellCanvas: panels on a pannable canvas.  The model covers the panel    *)
(* store (Canvas), the overlap resolver (Canvas.resolveOneOverlap), the    *)
(* input handlers that move, resize, add and delete panels, and the        *)
(* background load coordinator (SaveManager).                              *)
(*                                                                         *)
(* Panel indices are zero-based, as in the Go code; the panel at index i   *)
(* is panels[i + 1].                                                       *)
(***************************************************************************)
EXTENDS Integers, Sequences, FiniteSets, TLC

\* ------------------------------------------------------------- constants
PanelPaddingX == 4
PanelPaddingY == 4
PanelHeaderHeight == 20
ResizeHandleSize == 12
PanelNameButtonW == 96
PanelNameButtonH == 14
defaultCellW == 80
defaultCellH == 24
panelGap == PanelPaddingX

VARIABLES
    panels,         \* Canvas.panels
    camX, camY,     \* Canvas.camX, Canvas.camY
    movingPanel,    \* InputManager.movingPanel
    resizingPanel,  \* InputManager.resizingPanel
    moveOffsetX,    \* InputManager.moveOffsetX
    moveOffsetY,    \* InputManager.moveOffsetY
    activePanel,    \* InputManager.activePanel
    selRow, selCol, \* InputManager.selRow, InputManager.selCol
    edit,           \* InputManager.editing, editBuffer, editCursor, editingPanelName, ...
    ui,             \* UI.lastClickPanel, lastClickRow, lastClickCol, lastClickHeaderPanel
    pan,            \* InputManager.dragging, lastMouseX/Y, rightPressedX/Y
    menu,           \* ContextMenu.visible, x, y, targetPanel
    mouse,          \* cursor, buttons, key and click timing as ebiten reports them in this tick
    inflight,       \* SaveManager: loads scheduled and not yet completed
    queue,          \* SaveManager: the completion queue
    nextId,         \* number of loads scheduled so far
    diag,           \* number of messages ApplyPending gave to its log callback
    drained,        \* the results the running ApplyPending took, each with the panels before it
    atTick,         \* ids of the results in the queue when the tick began
    pc,             \* the handler Game.Update runs next
    tick,           \* number of ticks begun
    call            \* the last call of a store or cell operation made on its own

dragVars == <<movingPanel, resizingPanel, moveOffsetX, moveOffsetY>>
selVars == <<activePanel, selRow, selCol>>
editVars == <<edit, ui>>
loadVars == <<inflight, queue, nextId, diag, drained, atTick>>
vars == <<panels, camX, camY, movingPanel, resizingPanel, moveOffsetX, moveOffsetY,
          activePanel, selRow, selCol, edit, ui, pan, menu, mouse,
          inflight, queue, nextId, diag, drained, atTick, pc, tick, call>>

\* ------------------------------------------------------------- helpers
min(a, b) == IF a < b THEN a ELSE b

max(a, b) == IF a > b THEN a ELSE b

\* Go's integer division truncates toward zero.
Quot(a, b) == IF a >= 0 THEN a \div b ELSE -((-a) \div b)

\* The panel at zero-based index i.
PanelAt(ps, i) == ps[i + 1]

Indices(ps) == 0 .. (Len(ps) - 1)

EmptyCells == [k \in {} |-> ""]

NewBlankPanel(x, y, cols, rows) ==
    [X |-> x, Y |-> y, Cols |-> cols, Rows |-> rows,
     CellW |-> defaultCellW, CellH |-> defaultCellH,
     Cells |-> EmptyCells, Filename |-> "", Loaded |-> TRUE, Name |-> ""]

\* ------------------------------------------------------------- resolver
\* The set of locked indices (the keys of the Go map that map to true).
GetLockedPanels ==
    (IF movingPanel # -1 THEN {movingPanel} ELSE {})
        \cup (IF resizingPanel # -1 THEN {resizingPanel} ELSE {})

Left(p) == p.X - PanelPaddingX

Width(p) == p.Cols * p.CellW + PanelPaddingX * 2

Right(p) == Left(p) + Width(p)

OverlapX(a, b) == min(Right(a), Right(b)) - max(Left(a), Left(b))

GapX(a, b) ==
    IF Right(a) < Left(b) THEN Left(b) - Right(a)
    ELSE IF Right(b) < Left(a) THEN Left(a) - Right(b)
    ELSE -OverlapX(a, b)

ViolX(a, b) ==
    IF OverlapX(a, b) > 0 THEN OverlapX(a, b) + panelGap
    ELSE IF GapX(a, b) < panelGap THEN panelGap - GapX(a, b)
    ELSE 0

Top(p) == p.Y - PanelHeaderHeight

Height(p) == p.Rows * p.CellH + PanelHeaderHeight + PanelPaddingY * 2

OverlapY(a, b) ==
    min(Top(a) + Height(a), Top(b) + Height(b)) - max(Top(a), Top(b))

CenterX(p) == Left(p) + Quot(Width(p), 2)

\* The signed one-pixel step applied to panel b (the second of the pair).
StepTwo(a, b) == IF CenterX(a) < CenterX(b) THEN 2 ELSE -2

\* A step that moves panel b right when the centres are equal.
StepEqualRight(a, b) == IF CenterX(a) <= CenterX(b) THEN 1 ELSE -1

Step(a, b) == IF CenterX(a) < CenterX(b) THEN 1 ELSE -1

\* The pair test of the inner loop body: horizontal work is needed and the
\* panels overlap vertically.
NeedsMoveNoVertical(a, b) == ~(ViolX(a, b) <= 0)

\* A pair test that takes a violation of zero for work to do.
NeedsMoveAtThreshold(a, b) == ~(ViolX(a, b) < 0) /\ ~(OverlapY(a, b) <= 0)

NeedsMove(a, b) == ~(ViolX(a, b) <= 0) /\ ~(OverlapY(a, b) <= 0)

\* "skip if this panel is being interacted with"
SkipNever(locked, k) == FALSE

Skip(locked, k) == k \in locked

\* The two nested loops, from pair (i, j) on; returns the panels after the
\* call.  The first pair that needs a move is corrected and the scan ends.
RECURSIVE scan(_, _, _, _)
scan(ps, locked, i, j) ==
    IF ~(i < Len(ps)) THEN ps
    ELSE IF Skip(locked, i) THEN scan(ps, locked, i + 1, i + 2)
    ELSE IF ~(j < Len(ps)) THEN scan(ps, locked, i + 1, i + 2)
    ELSE IF Skip(locked, j) THEN scan(ps, locked, i, j + 1)
    ELSE IF ~NeedsMove(PanelAt(ps, i), PanelAt(ps, j)) THEN scan(ps, locked, i, j + 1)
    ELSE [ps EXCEPT ![j + 1].X = @ + Step(PanelAt(ps, i), PanelAt(ps, j))]

\* The same loops without the early return: every pair that needs a move
\* is corrected in one call.
RECURSIVE scanAll(_, _, _, _)
scanAll(ps, locked, i, j) ==
    IF ~(i < Len(ps)) THEN ps
    ELSE IF Skip(locked, i) THEN scanAll(ps, locked, i + 1, i + 2)
    ELSE IF ~(j < Len(ps)) THEN scanAll(ps, locked, i + 1, i + 2)
    ELSE IF Skip(locked, j) THEN scanAll(ps, locked, i, j + 1)
    ELSE IF ~NeedsMove(PanelAt(ps, i), PanelAt(ps, j)) THEN scanAll(ps, locked, i, j + 1)
    ELSE scanAll([ps EXCEPT ![j + 1].X = @ + Step(PanelAt(ps, i), PanelAt(ps, j))],
                 locked, i, j + 1)

resolveAllOverlaps(ps, locked) == scanAll(ps, locked, 0, 1)

\* A resolver that pushes the corrected panel one pixel down as well.
resolveOneOverlapBothAxes(ps, locked) ==
    [k \in DOMAIN ps |->
        IF scan(ps, locked, 0, 1)[k] # ps[k]
        THEN [scan(ps, locked, 0, 1)[k] EXCEPT !.Y = @ + 1]
        ELSE ps[k]]

resolveOneOverlap(ps, locked) == scan(ps, locked, 0, 1)

\* ------------------------------------------------------------- input state
NoPan == [dragging |-> FALSE, lastMouseX |-> 0, lastMouseY |-> 0,
          rightPressedX |-> 0, rightPressedY |-> 0]

NewContextMenu == [visible |-> FALSE, x |-> 0, y |-> 0, targetPanel |-> -1]

\* No button held, no key pressed.  quick says whether a press comes within
\* UI.dblClickMs of the click before it.
NoMouse == [x |-> 0, y |-> 0, left |-> FALSE, right |-> FALSE,
            leftWas |-> FALSE, rightWas |-> FALSE, key |-> "none", quick |-> FALSE]

\* No operation has been called on its own.
NoCall == [op |-> "none"]

\* The editing fields after NewInputManager.
NoEdit == [editing |-> FALSE, editBuffer |-> "", editCursor |-> 0,
           editingPanelName |-> FALSE, editPanelBuffer |-> "", editPanelCursor |-> 0,
           editPanelIndex |-> -1]

\* The click tracking after NewUI.
NewUI == [lastClickPanel |-> -1, lastClickRow |-> -1, lastClickCol |-> -1,
          lastClickHeaderPanel |-> -1]

\* ------------------------------------------------------------- resolver runs
\* Layouts the resolver is run on: two or three panels placed by state load
\* or by drags, optionally with one panel held by the user.
LayoutXs == {0, 40, 90, 172}

LayoutYs == {0, 51, 52}

LayoutCols == {1, 2}

LayoutPanels ==
    {NewBlankPanel(x, y, c, 1) : x \in LayoutXs, y \in LayoutYs, c \in LayoutCols}

SmallXs == {0, 40, 90}

SmallYs == {0, 52}

SmallPanels ==
    {NewBlankPanel(x, y, c, 1) : x \in SmallXs, y \in SmallYs, c \in LayoutCols}

Layouts ==
    {<<a, b>> : a \in LayoutPanels, b \in LayoutPanels}
        \cup {<<a, b, c>> : a \in SmallPanels, b \in SmallPanels, c \in SmallPanels}

InitResolver ==
    /\ panels \in Layouts
    /\ camX = 0
    /\ camY = 0
    /\ \E k \in -1 .. 2, kind \in {"move", "resize"} :
        /\ k < Len(panels)
        /\ movingPanel = (IF kind = "move" THEN k ELSE -1)
        /\ resizingPanel = (IF kind = "resize" THEN k ELSE -1)
    /\ moveOffsetX = 0
    /\ moveOffsetY = 0
    /\ activePanel = 0
    /\ selRow = 0
    /\ selCol = 0
    /\ edit = NoEdit
    /\ ui = NewUI
    /\ pan = NoPan
    /\ menu = NewContextMenu
    /\ mouse = NoMouse
    /\ inflight = {}
    /\ queue = <<>>
    /\ nextId = 0
    /\ diag = 0
    /\ drained = <<>>
    /\ atTick = {}
    /\ pc = "resolve"
    /\ tick = 0
    /\ call = NoCall

\* One tick with no user input and no completed load: Canvas.Update reduces
\* to the resolver call.
ResolverTick ==
    /\ panels' = resolveOneOverlap(panels, GetLockedPanels)
    /\ UNCHANGED <<call, camX, camY, dragVars, selVars, editVars, pan, menu, mouse, loadVars, pc, tick>>

NextResolver == ResolverTick

SpecResolver == InitResolver /\ [][NextResolver]_vars

\* ------------------------------------------------------------- resolver claims
\* Indices whose panel differs between the two states of a step.
Changed == {k \in Indices(panels) : k < Len(panels') /\ panels'[k + 1] # panels[k + 1]}

\* Panel k is the same but for X, which moved by exactly one pixel.
MovedOnePixel(k) ==
    \/ panels'[k + 1] = [panels[k + 1] EXCEPT !.X = @ + 1]
    \/ panels'[k + 1] = [panels[k + 1] EXCEPT !.X = @ - 1]

\* Pair (i, j) is unlocked, horizontally violating and vertically overlapping.
Violates(i, j) ==
    /\ i \notin GetLockedPanels
    /\ j \notin GetLockedPanels
    /\ ViolX(PanelAt(panels, i), PanelAt(panels, j)) > 0
    /\ OverlapY(PanelAt(panels, i), PanelAt(panels, j)) > 0

ViolatingPairs == {pr \in Indices(panels) \X Indices(panels) : pr[1] < pr[2] /\ Violates(pr[1], pr[2])}

\* Pair p comes before pair q in the order of the nested loops.
Before(p, q) == p[1] < q[1] \/ (p[1] = q[1] /\ p[2] < q[2])

\* Two unlocked panels alone on the canvas, overlapping vertically, with a
\* positive horizontal violation.
TwoPanelCase ==
    /\ Len(panels) = 2
    /\ GetLockedPanels = {}
    /\ OverlapY(panels[1], panels[2]) > 0
    /\ ViolX(panels[1], panels[2]) > 0

\* The distance panel b still has to travel, in the direction the resolver
\* moves it, until it is panelGap away from panel a.
Travel(a, b) ==
    IF ViolX(a, b) <= 0 THEN 0
    ELSE IF CenterX(a) < CenterX(b) THEN Right(a) + panelGap - Left(b)
    ELSE Right(b) + panelGap - Left(a)

\* On the side panel b moves away from, the edges are ordered like the
\* centres (always so for panels of equal width).
EdgesOrdered(a, b) ==
    IF CenterX(a) < CenterX(b)
    THEN Right(a) <= Right(b) /\ Left(a) <= Left(b)
    ELSE Right(b) <= Right(a) /\ Left(b) <= Left(a)

C2_OneCorrectionFirstPair ==
    [][/\ Len(panels') = Len(panels)
       /\ Cardinality(Changed) <= 1
       /\ (ViolatingPairs # {}) => (Changed # {})
       /\ \A j \in Changed :
            /\ MovedOnePixel(j)
            /\ \E i \in Indices(panels) :
                /\ <<i, j>> \in ViolatingPairs
                /\ \A q \in ViolatingPairs : ~Before(q, <<i, j>>)]_vars

\* Three panels with at least two violating pairs, after a correction.
C2_Witness ==
    /\ Len(panels) = 3
    /\ Cardinality(ViolatingPairs) >= 2
    /\ \E k \in Indices(panels) : PanelAt(panels, k).X \notin SmallXs

\* C3: a resolver call never changes a locked panel; with only two panels
\* on the canvas and one of them locked it changes nothing; and a panel
\* that moves owes it to a partner that is unlocked as well.
C3_LockedNeverMoved ==
    [][/\ \A k \in GetLockedPanels : k \notin Changed
       /\ (Len(panels) = 2 /\ GetLockedPanels # {}) => (panels' = panels)
       /\ \A j \in Changed : \E i \in Indices(panels) \ GetLockedPanels :
            /\ i # j
            /\ ViolX(PanelAt(panels, i), PanelAt(panels, j)) > 0]_vars

\* A locked panel crowding an unlocked one, in a canvas where the resolver
\* has moved another panel.
C3_Witness ==
    /\ Len(panels) = 3
    /\ \E k \in GetLockedPanels, i \in Indices(panels) :
        /\ i # k
        /\ ViolX(PanelAt(panels, i), PanelAt(panels, k)) > 0
        /\ OverlapY(PanelAt(panels, i), PanelAt(panels, k)) > 0
    /\ \E m \in Indices(panels) : PanelAt(panels, m).X \notin SmallXs

\* C4: a panel moves only if some earlier panel overlaps it vertically by
\* at least one pixel; touching edges (overlap 0) do not count.
C4_VerticalDisjointNoOp ==
    [][\A j \in Indices(panels) :
        (\A i \in 0 .. (j - 1) :
            OverlapY(PanelAt(panels, i), PanelAt(panels, j)) <= 0)
        => j \notin Changed]_vars

\* Two unlocked panels that crowd each other horizontally while their
\* edges touch vertically, in a canvas where the resolver has moved a
\* third panel.
C4_Witness ==
    /\ Len(panels) = 3
    /\ GetLockedPanels = {}
    /\ \E i, j \in Indices(panels) :
        /\ i < j
        /\ ViolX(PanelAt(panels, i), PanelAt(panels, j)) > 0
        /\ OverlapY(PanelAt(panels, i), PanelAt(panels, j)) = 0
    /\ \E m \in Indices(panels) : PanelAt(panels, m).X \notin SmallXs

\* The first violating pair in the order of the nested loops.
FirstPair == CHOOSE p \in ViolatingPairs : \A q \in ViolatingPairs : ~Before(q, p)

\* The distance between the centres of the padded rectangles of a and b.
CenterDistance(a, b) ==
    IF CenterX(a) < CenterX(b) THEN CenterX(b) - CenterX(a) ELSE CenterX(a) - CenterX(b)

\* C19: a correction of the violating pair (i, j), i < j, changes panel j
\* alone, so never the panel at index 0: its X grows by one when the centre
\* X of i is strictly less than that of j and shrinks by one otherwise, equal
\* centres included; and the distance between the two centres is strictly
\* larger after the correction.
C19_CorrectionDirection ==
    [][(ViolatingPairs # {}) =>
           LET i == FirstPair[1]
               j == FirstPair[2]
               a == PanelAt(panels, i)
               b == PanelAt(panels, j)
           IN  /\ i < j
               /\ Changed = {j}
               /\ 0 \notin Changed
               /\ panels'[1] = panels[1]
               /\ panels'[j + 1] =
                      [b EXCEPT !.X = IF CenterX(a) < CenterX(b) THEN b.X + 1 ELSE b.X - 1]
               /\ (CenterX(a) = CenterX(b)) => panels'[j + 1].X = b.X - 1
               /\ CenterDistance(PanelAt(panels', i), PanelAt(panels', j))
                      > CenterDistance(a, b)]_vars

\* Two equal panels that started on top of each other: the second has been
\* moved left of every position a layout starts from.
C19_Witness ==
    /\ Len(panels) = 2
    /\ GetLockedPanels = {}
    /\ panels[1].X = 0
    /\ panels[2].X = -1
    /\ panels[1].Cols = panels[2].Cols
    /\ panels[1].Y = panels[2].Y

\* The horizontal distance between the padded rectangles of a and b:
\* positive for a gap, zero for touching edges, negative for an overlap.
HGap(a, b) == max(Left(a), Left(b)) - min(Right(a), Right(b))

\* Pair (i, j) is unlocked and overlaps vertically.
Candidate(i, j) ==
    /\ i \notin GetLockedPanels
    /\ j \notin GetLockedPanels
    /\ OverlapY(PanelAt(panels, i), PanelAt(panels, j)) > 0

\* C20: of two unlocked panels that overlap vertically, the second is not
\* moved when the horizontal gap between their padded rectangles is panelGap
\* or more, and is moved when the gap is panelGap - 1 or less, touching edges
\* (gap 0) and overlaps included; and a tick in a state where no unlocked,
\* vertically overlapping pair is closer than panelGap changes no panel.
C20_GapThresholdNonStrict ==
    [][/\ (Len(panels) = 2 /\ Candidate(0, 1)) =>
              IF HGap(panels[1], panels[2]) >= panelGap
              THEN panels' = panels
              ELSE Changed = {1} /\ MovedOnePixel(1)
       /\ \A i \in Indices(panels), j \in Indices(panels) :
              (i < j /\ Candidate(i, j)) =>
                  (Violates(i, j) <=> HGap(PanelAt(panels, i), PanelAt(panels, j)) < panelGap)
       /\ (\A i \in Indices(panels), j \in Indices(panels) :
               (i < j /\ Candidate(i, j)) =>
                   HGap(PanelAt(panels, i), PanelAt(panels, j)) >= panelGap)
              => panels' = panels]_vars

\* The second panel stopped one pixel after a gap of panelGap - 1: it has
\* been moved from X = 90 to X = 92, exactly panelGap right of the first.
C20_Witness ==
    /\ Len(panels) = 2
    /\ GetLockedPanels = {}
    /\ OverlapY(panels[1], panels[2]) > 0
    /\ panels[1].X = 0
    /\ panels[1].Cols = 1
    /\ panels[2].X = 92
    /\ HGap(panels[1], panels[2]) = panelGap

\* ------------------------------------------------------------- cell references
\* A Go string is a sequence of one-character strings.
UpperSeq == <<"A", "B", "C", "D", "E", "F", "G", "H", "I", "J", "K", "L", "M",
              "N", "O", "P", "Q", "R", "S", "T", "U", "V", "W", "X", "Y", "Z">>

LowerSeq == <<"a", "b", "c", "d", "e", "f", "g", "h", "i", "j", "k", "l", "m",
              "n", "o", "p", "q", "r", "s", "t", "u", "v", "w", "x", "y", "z">>

DigitSeq == <<"0", "1", "2", "3", "4", "5", "6", "7", "8", "9">>

Range(f) == {f[i] : i \in DOMAIN f}

PosIn(c, seq) == CHOOSE i \in DOMAIN seq : seq[i] = c

\* A ColToLetters in plain base 26, without the carry of the bijective
\* numbering.
RECURSIVE ColToLettersBase26(_)
ColToLettersBase26(n) ==
    IF n < 0 THEN <<"?">>
    ELSE IF n < 26 THEN <<UpperSeq[n + 1]>>
    ELSE ColToLettersBase26(n \div 26) \o <<UpperSeq[(n % 26) + 1]>>

RECURSIVE colLetters(_, _)
colLetters(n, s) ==
    IF ~(n >= 0) THEN s
    ELSE colLetters((n \div 26) - 1, <<UpperSeq[(n % 26) + 1]>> \o s)

ColToLetters(n) == IF n < 0 THEN <<"?">> ELSE colLetters(n, <<>>)

\* fmt's %d for a non-negative or negative integer.
RECURSIVE digitsOf(_)
digitsOf(n) ==
    IF n < 10 THEN <<DigitSeq[n + 1]>>
    ELSE digitsOf(n \div 10) \o <<DigitSeq[(n % 10) + 1]>>

Itoa(n) == IF n < 0 THEN <<"-">> \o digitsOf(-n) ELSE digitsOf(n)

CellRef(col, row) == ColToLetters(col) \o Itoa(row + 1)

RECURSIVE trimLeft(_)
trimLeft(s) == IF s # <<>> /\ Head(s) = " " THEN trimLeft(Tail(s)) ELSE s

RECURSIVE trimRight(_)
trimRight(s) ==
    IF s # <<>> /\ s[Len(s)] = " " THEN trimRight(SubSeq(s, 1, Len(s) - 1)) ELSE s

TrimSpace(s) == trimRight(trimLeft(s))

ToUpper(c) == IF c \in Range(LowerSeq) THEN UpperSeq[PosIn(c, LowerSeq)] ELSE c

RECURSIVE lettersValue(_, _)
lettersValue(s, res) ==
    IF s = <<>> THEN [err |-> FALSE, col |-> res - 1]
    ELSE IF ToUpper(Head(s)) \notin Range(UpperSeq) THEN [err |-> TRUE, col |-> -1]
    ELSE lettersValue(Tail(s), res * 26 + (PosIn(ToUpper(Head(s)), UpperSeq) - 1) + 1)

LettersToCol(s) ==
    IF TrimSpace(s) = <<>> THEN [err |-> TRUE, col |-> -1]
    ELSE lettersValue(TrimSpace(s), 0)

RECURSIVE digitsValue(_, _)
digitsValue(s, res) ==
    IF s = <<>> THEN [err |-> FALSE, n |-> res]
    ELSE IF Head(s) \notin Range(DigitSeq) THEN [err |-> TRUE, n |-> 0]
    ELSE digitsValue(Tail(s), res * 10 + (PosIn(Head(s), DigitSeq) - 1))

\* strconv.Atoi: an optional sign, then at least one decimal digit.
Atoi(s) ==
    LET signed == s # <<>> /\ Head(s) \in {"+", "-"}
        body == IF signed THEN Tail(s) ELSE s
        v == digitsValue(body, 0)
    IN  IF body = <<>> \/ v.err THEN [err |-> TRUE, n |-> 0]
        ELSE [err |-> FALSE, n |-> IF signed /\ Head(s) = "-" THEN -v.n ELSE v.n]

RECURSIVE letterPrefix(_, _)
letterPrefix(s, i) ==
    IF i < Len(s) /\ s[i + 1] \in (Range(UpperSeq) \cup Range(LowerSeq))
    THEN letterPrefix(s, i + 1)
    ELSE i

ParseCellRef(rawRef) ==
    LET ref == TrimSpace(rawRef)
        i == letterPrefix(ref, 0)
        letters == SubSeq(ref, 1, i)
        digits == TrimSpace(SubSeq(ref, i + 1, Len(ref)))
        c == LettersToCol(letters)
        r == Atoi(digits)
        bad == [err |-> TRUE, col |-> -1, row |-> -1]
    IN  IF ref = <<>> THEN bad
        ELSE IF i = 0 THEN bad
        ELSE IF digits = <<>> THEN bad
        ELSE IF c.err THEN bad
        ELSE IF r.err THEN bad
        ELSE [err |-> FALSE, col |-> c.col, row |-> r.n - 1]

\* ------------------------------------------------------------- cells
\* m[key] = val on a Go map.
MapSet(m, key, val) == [k \in DOMAIN m \cup {key} |-> IF k = key THEN val ELSE m[k]]

\* delete(m, key)
MapDelete(m, key) == [k \in DOMAIN m \ {key} |-> m[k]]

\* A SetCell that stores the empty string.
SetCellStoresEmpty(p, col, row, val) == [p EXCEPT !.Cells = MapSet(@, CellRef(col, row), val)]

GetCell(p, col, row) ==
    IF CellRef(col, row) \in DOMAIN p.Cells THEN p.Cells[CellRef(col, row)] ELSE ""

SetCell(p, col, row, val) ==
    IF val = ""
    THEN [p EXCEPT !.Cells = MapDelete(@, CellRef(col, row))]
    ELSE [p EXCEPT !.Cells = MapSet(@, CellRef(col, row), val)]

\* A resize that keeps the whole mapping.
ResizedCellsKeepAll(old, cols, rows) == old

\* A *Panel receiver: a nil pointer, or a panel whose Cells map may be nil.
Receiver(isNil, cellsNil, p) == [isNil |-> isNil, cellsNil |-> cellsNil, p |-> p]

\* GetCell with its nil guards.
GetCellOn(recv, col, row) ==
    IF recv.isNil THEN ""
    ELSE IF recv.cellsNil THEN ""
    ELSE GetCell(recv.p, col, row)

\* SetCell with its nil guards: the receiver afterwards.
SetCellOn(recv, col, row, val) ==
    IF recv.isNil THEN recv
    ELSE Receiver(FALSE, FALSE,
                  SetCell(IF recv.cellsNil THEN [recv.p EXCEPT !.Cells = EmptyCells]
                          ELSE recv.p,
                          col, row, val))

\* The loop of the resize step: the entries of old whose key parses and
\* lies inside the new bounds, re-keyed.
ResizedCells(old, cols, rows) ==
    LET kept == {k \in DOMAIN old :
                    LET r == ParseCellRef(k)
                    IN  ~r.err /\ r.row >= 0 /\ r.row < rows /\ r.col >= 0 /\ r.col < cols}
        newKeys == {CellRef(ParseCellRef(k).col, ParseCellRef(k).row) : k \in kept}
    IN  [n \in newKeys |->
            old[CHOOSE k \in kept : CellRef(ParseCellRef(k).col, ParseCellRef(k).row) = n]]

\* ------------------------------------------------------------- files
\* A path is a directory and a base name.
Path(dir, base) == [dir |-> dir, base |-> base]

\* filepath.Base
Base(path) == path.base

\* filepath.Join(dir, name), for a relative name
Join(dir, name) == Path(dir, name)

\* The working directory holds the state file and the CSV files.
WorkDir == "/work"

\* filepath.Abs
Abs(path) == IF path.dir = "." THEN Path(WorkDir, path.base) ELSE path

\* The CSV files on disk: the records csv.Reader.ReadAll returns, or
\* "malformed" when ReadAll fails.  A file not listed does not exist.
Disk ==
    [f \in {"a.csv", "b.csv", "empty.csv", "bad.csv"} |->
        CASE f = "a.csv" -> <<<<"x">>, <<"", "y">>>>
          [] f = "b.csv" -> <<<<"p", "q", "r">>>>
          [] f = "empty.csv" -> <<>>
          [] f = "bad.csv" -> "malformed"]

\* os.Open followed by ReadAll.
ReadAll(path) ==
    IF Abs(path).dir # WorkDir \/ Abs(path).base \notin DOMAIN Disk
    THEN [err |-> TRUE, records |-> <<>>]
    ELSE IF Disk[Abs(path).base] = "malformed" THEN [err |-> TRUE, records |-> <<>>]
    ELSE [err |-> FALSE, records |-> Disk[Abs(path).base]]

RECURSIVE maxLen(_, _)
maxLen(records, cols) ==
    IF records = <<>> THEN cols
    ELSE maxLen(Tail(records), IF Len(Head(records)) > cols THEN Len(Head(records)) ELSE cols)

\* The two nested loops of loadPanelCSV, from record i, field j on.
RECURSIVE fillCells(_, _, _, _, _)
fillCells(records, cols, i, j, cells) ==
    IF ~(i < Len(records)) THEN cells
    ELSE IF ~(j < cols) THEN fillCells(records, cols, i + 1, 0, cells)
    ELSE LET v == IF j < Len(records[i + 1]) THEN records[i + 1][j + 1] ELSE ""
         IN  fillCells(records, cols, i, j + 1,
                       IF v # "" THEN MapSet(cells, CellRef(j, i), v) ELSE cells)

\* loadPanelCSV(path, &p): the error flag and the panel afterwards.
loadPanelCSV(path, p) ==
    LET r == ReadAll(path)
        cols == maxLen(r.records, 0)
    IN  IF r.err THEN [err |-> TRUE, p |-> p]
        ELSE IF Len(r.records) = 0
        THEN [err |-> FALSE,
              p |-> [p EXCEPT !.Rows = 0, !.Cols = 0,
                              !.Cells = EmptyCells]]
        ELSE [err |-> FALSE,
              p |-> [p EXCEPT !.Rows = Len(r.records), !.Cols = cols,
                              !.Cells = fillCells(r.records, cols, 0, 0, EmptyCells)]]

\* ------------------------------------------------------------- panel store
RemoveAt(ps, i) == SubSeq(ps, 1, i) \o SubSeq(ps, i + 2, Len(ps))

\* A RemovePanelAt that clamps its index into the collection.
RemovePanelAtClamped(ps, i) ==
    IF Len(ps) = 0 THEN ps
    ELSE RemoveAt(ps, IF i < 0 THEN 0 ELSE IF i >= Len(ps) THEN Len(ps) - 1 ELSE i)

\* A RemovePanelAt that moves the last panel into the freed slot.
RemovePanelAtSwap(ps, i) ==
    IF i < 0 \/ i >= Len(ps) THEN ps
    ELSE SubSeq([ps EXCEPT ![i + 1] = ps[Len(ps)]], 1, Len(ps) - 1)

\* An AddPanelAt that puts the new panel first.
AddPanelAtFront(ps, x, y) == <<NewBlankPanel(x, y, 5, 5)>> \o ps

\* An AddPanelFromCSV that appends the panel whether or not the load failed.
AddPanelFromCSVAlways(ps, path, x, y) ==
    [err |-> loadPanelCSV(path, NewBlankPanel(x, y, 1, 1)).err,
     panels |-> Append(ps, [NewBlankPanel(x, y, 1, 1) EXCEPT !.Filename = Base(path)])]

RemovePanelAt(ps, i) == IF i < 0 \/ i >= Len(ps) THEN ps ELSE RemoveAt(ps, i)

AddPanelAt(ps, x, y) == Append(ps, [NewBlankPanel(x, y, 5, 5) EXCEPT !.X = x, !.Y = y])

\* AddPanelFromCSV: the error flag and the panels afterwards.
AddPanelFromCSV(ps, path, x, y) ==
    LET r == loadPanelCSV(path, NewBlankPanel(x, y, 1, 1))
    IN  IF r.err THEN [err |-> TRUE, panels |-> ps]
        ELSE [err |-> FALSE,
              panels |-> Append(ps, [r.p EXCEPT !.Filename = Base(path), !.X = x,
                                                !.Y = y, !.Loaded = TRUE])]

\* The state file: "missing" or the panel entries of the manifest (the camera
\* offset it records is zero).
StateDir == "."

\* The second loop of LoadState, from manifest entry i on.
RECURSIVE loadEntries(_, _, _)
loadEntries(ps, entries, i) ==
    IF ~(i < Len(entries)) \/ i >= Len(ps) THEN ps
    ELSE LET sp == entries[i + 1]
             placed == [ps[i + 1] EXCEPT !.X = sp.x, !.Y = sp.y]
             r == loadPanelCSV(Join(StateDir, sp.file), placed)
         IN  IF sp.file = ""
             THEN loadEntries([ps EXCEPT ![i + 1] = placed], entries, i + 1)
             ELSE loadEntries([ps EXCEPT ![i + 1] = [r.p EXCEPT !.Filename = sp.file]],
                              entries, i + 1)

\* The first loop of LoadState: blank panels appended up to the manifest's
\* length.
RECURSIVE padPanels(_, _)
padPanels(ps, n) ==
    IF ~(Len(ps) < n) THEN ps
    ELSE padPanels(Append(ps, NewBlankPanel(20 + Len(ps) * 32, 20 + Len(ps) * 32, 5, 5)), n)

\* Canvas.LoadState on a readable state file with the given entries.
LoadState(ps, entries) == loadEntries(padPanels(ps, Len(entries)), entries, 0)

\* ------------------------------------------------------------- geometry
\* A GetBounds whose total height leaves out the padding.
GetBoundsNoPadding(p, cx, cy) ==
    [ContentX |-> p.X + cx,
     ContentY |-> p.Y + cy,
     ContentW |-> p.Cols * p.CellW,
     ContentH |-> p.Rows * p.CellH,
     TotalX |-> (p.X + cx) - PanelPaddingX,
     TotalY |-> (p.Y + cy) - PanelHeaderHeight,
     TotalW |-> p.Cols * p.CellW + PanelPaddingX * 2,
     TotalH |-> p.Rows * p.CellH + PanelHeaderHeight]

\* Panel.GetBounds, for a camera offset with integer coordinates.
GetBounds(p, cx, cy) ==
    [ContentX |-> p.X + cx,
     ContentY |-> p.Y + cy,
     ContentW |-> p.Cols * p.CellW,
     ContentH |-> p.Rows * p.CellH,
     TotalX |-> (p.X + cx) - PanelPaddingX,
     TotalY |-> (p.Y + cy) - PanelHeaderHeight,
     TotalW |-> p.Cols * p.CellW + PanelPaddingX * 2,
     TotalH |-> p.Rows * p.CellH + PanelHeaderHeight + PanelPaddingY * 2]

abs(a) == IF a < 0 THEN -a ELSE a

\* ------------------------------------------------------------- input device
JustPressedLeft == mouse.left /\ ~mouse.leftWas

JustReleasedLeft == ~mouse.left /\ mouse.leftWas

JustPressedRight == mouse.right /\ ~mouse.rightWas

JustReleasedRight == ~mouse.right /\ mouse.rightWas

\* ------------------------------------------------------------- background loads
\* The detached panel a load worker parses the file into, and whether the
\* parse failed.
ParseDetached(path) == loadPanelCSV(path, NewBlankPanel(0, 0, 1, 1))

InBounds(ps, i) == i >= 0 /\ i < Len(ps)

\* Where the panel at index i is, <<>> when there is no such panel.
PositionAt(ps, i) == IF InBounds(ps, i) THEN <<ps[i + 1].X, ps[i + 1].Y>> ELSE <<>>

\* SaveManager.ScheduleLoad: the in-flight loads afterwards.  The fields at
\* and owner are history: where the target was when the load was scheduled,
\* and the index at which the panel that was the target then is now, -1 when
\* there was no such panel or it has been removed since.
ScheduleLoad(loads, id, target, path, at) ==
    loads \cup {[id |-> id, target |-> target, path |-> path, at |-> at,
                 owner |-> IF at = <<>> THEN -1 ELSE target]}

\* The index of the panel at index owner once the panel at index k is removed.
OwnerAfterRemove(owner, k) ==
    IF owner = k THEN -1 ELSE IF owner > k THEN owner - 1 ELSE owner

\* The history of the loads in flight and of the queued results once the
\* panel at index k is removed.
InflightAfterRemove(loads, k) ==
    {[w EXCEPT !.owner = OwnerAfterRemove(@, k)] : w \in loads}

QueueAfterRemove(q, k) ==
    [i \in DOMAIN q |-> [q[i] EXCEPT !.owner = OwnerAfterRemove(@, k)]]

\* The completion message of a load.
Completion(w) ==
    [id |-> w.id, target |-> w.target, path |-> w.path, at |-> w.at, owner |-> w.owner,
     err |-> ParseDetached(w.path).err, content |-> ParseDetached(w.path).p]


\* A successful result merged at the position of the parsed content.
MergeLoadedAtParsed(ps, r) ==
    [ps EXCEPT ![r.target + 1] =
        [r.content EXCEPT !.Filename = Base(r.path), !.Loaded = TRUE]]

\* A successful result merged without the filename of its file.
MergeLoadedKeepsFilename(ps, r) ==
    [ps EXCEPT ![r.target + 1] =
        [r.content EXCEPT !.X = ps[r.target + 1].X, !.Y = ps[r.target + 1].Y,
                          !.Filename = ps[r.target + 1].Filename, !.Loaded = TRUE]]

\* A successful result merged into the panel at its target index.
MergeLoaded(ps, r) ==
    [ps EXCEPT ![r.target + 1] =
        [r.content EXCEPT !.X = ps[r.target + 1].X, !.Y = ps[r.target + 1].Y,
                          !.Filename = Base(r.path), !.Loaded = TRUE]]

\* A failed result that removes its target panel.
MergeFailedRemoves(ps, r) == RemoveAt(ps, r.target)

\* A failed result recorded on the panel at its target index.
MergeFailed(ps, r) ==
    [ps EXCEPT ![r.target + 1].Loaded = FALSE, ![r.target + 1].Filename = Base(r.path)]

\* A result applied without the bounds check: an out-of-range target lands
\* on the last panel.
ApplyResultUnchecked(ps, r) ==
    IF ps = <<>> THEN <<r.content>>
    ELSE IF InBounds(ps, r.target)
    THEN (IF r.err THEN MergeFailed(ps, r) ELSE MergeLoaded(ps, r))
    ELSE [ps EXCEPT ![Len(ps)] = r.content]

\* One result of the drain loop applied to the panels.
ApplyResult(ps, r) ==
    IF ~InBounds(ps, r.target) THEN ps
    ELSE IF r.err THEN MergeFailed(ps, r)
    ELSE MergeLoaded(ps, r)

\* The panels after a load worker has run to its completion message.
WorkerWritesStore(ps, w) == ApplyResult(ps, Completion(w))

WorkerStore(ps, w) == ps

\* The diagnostics the drain loop emits for one result.
DiagnosticsNone(ps, r) == 0

Diagnostics(ps, r) == IF InBounds(ps, r.target) /\ r.err THEN 1 ELSE 0

QueueIds(q) == {q[i].id : i \in DOMAIN q}

\* The drain loop's exit test, n results into the call.
DrainDoneAfterOne(q, n) == q = <<>> \/ n >= 1

\* A drain loop that returns without looking at the queue.
DrainDoneAtOnce(q, n) == TRUE

DrainDone(q, n) == q = <<>>

\* ------------------------------------------------------------- the tick loop
\* Bounds of the runs.
MaxTicks == 5

MaxLoads == 2

MaxPanels == 2

MaxCam == 40

QueueCap == 2

\* The cursor positions and the button the user holds in a tick.
MousePts == {<<110, 51>>, <<110, 81>>, <<150, 81>>, <<110, 170>>}

Buttons == {"none", "left", "right"}

\* The state files NewGame may find: none, or a manifest of panel entries.
Manifests ==
    {<<>>,
     <<[x |-> 100, y |-> 100, file |-> "a.csv"]>>,
     <<[x |-> 100, y |-> 100, file |-> "empty.csv"]>>,
     <<[x |-> 100, y |-> 100, file |-> "a.csv"], [x |-> 300, y |-> 100, file |-> ""]>>}

\* The files the user may pick in the load dialog.
DialogPaths ==
    {Path(WorkDir, "b.csv"), Path(WorkDir, "empty.csv"), Path(WorkDir, "gone.csv"),
     Path(WorkDir, "bad.csv")}

\* What the load dialog returns: a chosen path, or an error when cancelled.
DialogResults ==
    [err : {FALSE}, path : DialogPaths] \cup {[err |-> TRUE, path |-> Path(WorkDir, "")]}

\* NewCanvas, NewInputManager, NewContextMenu, NewSaveManager.
Init ==
    /\ panels = <<>>
    /\ camX = 0
    /\ camY = 0
    /\ movingPanel = -1
    /\ resizingPanel = -1
    /\ moveOffsetX = 0
    /\ moveOffsetY = 0
    /\ activePanel = 0
    /\ selRow = 0
    /\ selCol = 0
    /\ edit = NoEdit
    /\ ui = NewUI
    /\ pan = NoPan
    /\ menu = NewContextMenu
    /\ mouse = NoMouse
    /\ inflight = {}
    /\ queue = <<>>
    /\ nextId = 0
    /\ diag = 0
    /\ drained = <<>>
    /\ atTick = {}
    /\ pc = "start"
    /\ tick = 0
    /\ call = NoCall

\* NewGame: the initial layout is read from state.yml.
NewGame(manifests) ==
    /\ pc = "start"
    /\ \E entries \in manifests : panels' = LoadState(panels, entries)
    /\ camX' = 0
    /\ camY' = 0
    /\ pc' = "poll"
    /\ UNCHANGED <<call, dragVars, selVars, editVars, pan, menu, mouse, loadVars, tick>>

NewGameLoadState == NewGame(Manifests)

\* The context-menu item under the cursor (ContextMenu.Update's hover index).
MenuItemH == 28

MenuW == 240

MenuItems == 5

Hover(m, mx, my) ==
    IF mx >= m.x /\ mx <= m.x + MenuW /\ my >= m.y /\ my <= m.y + MenuItemH * MenuItems
    THEN (IF Quot(my - m.y, MenuItemH) < 0 THEN -1 ELSE Quot(my - m.y, MenuItemH))
    ELSE -1

\* ebiten samples the cursor and the buttons before Game.Update runs.  The
\* user stays within the bounds of the run: no pan beyond MaxCam, no blank
\* panel beyond MaxPanels.
Poll(pts, btns, keys, quicks, ticks) ==
    /\ pc = "poll"
    /\ tick < ticks
    /\ \E pt \in pts, btn \in btns, k \in keys, q \in quicks :
        /\ q => (btn = "left" /\ ~mouse.left)
        /\ (btn = "right" /\ mouse.right)
            => /\ abs(camX + (pt[1] - pan.lastMouseX)) <= MaxCam
               /\ abs(camY + (pt[2] - pan.lastMouseY)) <= MaxCam
        /\ (btn = "left" /\ ~mouse.left /\ menu.visible /\ Hover(menu, pt[1], pt[2]) = 0)
            => Len(panels) < MaxPanels
        /\ mouse' = [x |-> pt[1], y |-> pt[2],
                     left |-> (btn = "left"), right |-> (btn = "right"),
                     leftWas |-> mouse.left, rightWas |-> mouse.right,
                     key |-> k, quick |-> q]
    /\ atTick' = QueueIds(queue)
    /\ tick' = tick + 1
    /\ pc' = "pan"
    /\ UNCHANGED <<call, panels, camX, camY, dragVars, selVars, editVars, pan, menu,
                   inflight, queue, nextId, diag, drained>>

PollInput == Poll(MousePts, Buttons, {"none"}, {FALSE}, MaxTicks)

\* The right-click hit test of HandlePanInput, from panel i down.
RECURSIVE panTarget(_)
panTarget(i) ==
    IF i < 0 THEN -1
    ELSE LET b == GetBounds(PanelAt(panels, i), camX, camY)
             headerY == b.ContentY - PanelHeaderHeight
         IN  IF /\ mouse.x >= b.ContentX /\ mouse.x <= b.ContentX + b.ContentW
                /\ mouse.y >= headerY /\ mouse.y <= headerY + b.ContentH
             THEN i
             ELSE panTarget(i - 1)

\* ContextMenu.Show
Show(x, y, target) == [visible |-> TRUE, x |-> x, y |-> y, targetPanel |-> target]

HandlePanInput ==
    /\ pc = "pan"
    /\ LET p1 == IF JustPressedRight
                 THEN [dragging |-> TRUE, lastMouseX |-> mouse.x, lastMouseY |-> mouse.y,
                       rightPressedX |-> mouse.x, rightPressedY |-> mouse.y]
                 ELSE pan
           click == /\ JustReleasedRight
                    /\ abs(mouse.x - p1.rightPressedX) < 6
                    /\ abs(mouse.y - p1.rightPressedY) < 6
           p2 == IF JustReleasedRight THEN [p1 EXCEPT !.dragging = FALSE] ELSE p1
           panning == p2.dragging /\ mouse.right
       IN  /\ menu' = IF click THEN Show(mouse.x, mouse.y, panTarget(Len(panels) - 1)) ELSE menu
           /\ camX' = IF panning THEN camX + (mouse.x - p2.lastMouseX) ELSE camX
           /\ camY' = IF panning THEN camY + (mouse.y - p2.lastMouseY) ELSE camY
           /\ pan' = IF panning
                     THEN [p2 EXCEPT !.lastMouseX = mouse.x, !.lastMouseY = mouse.y]
                     ELSE p2
    /\ pc' = "interact"
    /\ UNCHANGED <<call, panels, dragVars, selVars, editVars, mouse, loadVars, tick>>

\* What a left press may change: the drag and selection fields of the
\* InputManager, its editing fields, the click tracking and the panels.
DragSel ==
    [movingPanel |-> movingPanel, resizingPanel |-> resizingPanel,
     moveOffsetX |-> moveOffsetX, moveOffsetY |-> moveOffsetY,
     activePanel |-> activePanel, selRow |-> selRow, selCol |-> selCol,
     edit |-> edit, ui |-> ui, panels |-> panels]

\* len([]rune(s))
RuneLen(s) == Len(s)

\* Editing of a cell begins with the cell's text in the buffer.
StartEditing(e, text) ==
    [e EXCEPT !.editing = TRUE, !.editBuffer = text, !.editCursor = RuneLen(text)]

\* The edit buffer is written to the selected cell of the active panel.
CommitCell(ps, active, col, row, text) ==
    IF InBounds(ps, active)
    THEN [ps EXCEPT ![active + 1] = SetCell(@, col, row, text)]
    ELSE ps

\* UI.OnCellClick
OnCellClick(st, panel, row, col) ==
    LET commit == st.edit.editing /\ ~st.edit.editingPanelName
        ps == IF commit
              THEN CommitCell(st.panels, st.activePanel, st.selCol, st.selRow,
                              st.edit.editBuffer)
              ELSE st.panels
        e == IF commit THEN [st.edit EXCEPT !.editing = FALSE] ELSE st.edit
        double == /\ st.ui.lastClickPanel = panel
                  /\ st.ui.lastClickRow = row
                  /\ st.ui.lastClickCol = col
                  /\ mouse.quick
    IN  IF double
        THEN [st EXCEPT !.panels = ps,
                        !.edit = IF InBounds(ps, panel)
                                 THEN StartEditing(e, GetCell(ps[panel + 1], col, row))
                                 ELSE e,
                        !.ui = [@ EXCEPT !.lastClickPanel = -1]]
        ELSE [st EXCEPT !.panels = ps,
                        !.edit = e,
                        !.ui = [@ EXCEPT !.lastClickPanel = panel, !.lastClickRow = row,
                                         !.lastClickCol = col]]

\* UI.OnPanelNameClick
OnPanelNameClick(st, panel) ==
    IF st.ui.lastClickHeaderPanel = panel /\ mouse.quick
    THEN [st EXCEPT !.edit = IF InBounds(st.panels, panel)
                             THEN [@ EXCEPT !.editingPanelName = TRUE,
                                            !.editPanelIndex = panel,
                                            !.editPanelBuffer = st.panels[panel + 1].Name,
                                            !.editPanelCursor =
                                                RuneLen(st.panels[panel + 1].Name)]
                             ELSE @,
                    !.ui = [@ EXCEPT !.lastClickHeaderPanel = -1]]
    ELSE [st EXCEPT !.ui = [@ EXCEPT !.lastClickHeaderPanel = panel]]

\* The left-press hit test of HandleCanvasInteraction, from panel i down
\* (topmost first).
RECURSIVE pressScan(_, _)
pressScan(i, st) ==
    IF i < 0 THEN st
    ELSE LET p == PanelAt(st.panels, i)
             b == GetBounds(p, camX, camY)
             baseX == b.ContentX
             baseY == b.ContentY
             w == b.ContentW
             h == b.ContentH
             headerY == baseY - PanelHeaderHeight
             btnX == baseX + Quot(w, 2) - Quot(PanelNameButtonW, 2)
             btnY == headerY + Quot(PanelHeaderHeight - PanelNameButtonH, 2)
             mx == mouse.x
             my == mouse.y
             col == Quot(mx - baseX, p.CellW)
             row == Quot(my - baseY, p.CellH)
         IN  IF /\ mx >= btnX /\ mx <= btnX + PanelNameButtonW
                /\ my >= btnY /\ my <= btnY + PanelNameButtonH
             THEN OnPanelNameClick(st, i)
             ELSE IF /\ mx >= baseX /\ mx <= baseX + w
                     /\ my >= headerY /\ my <= headerY + PanelHeaderHeight
             THEN [st EXCEPT !.movingPanel = i, !.moveOffsetX = mx - baseX,
                             !.moveOffsetY = my - baseY]
             ELSE IF /\ mx >= baseX + w - ResizeHandleSize /\ mx <= baseX + w
                     /\ my >= baseY + h - ResizeHandleSize /\ my <= baseY + h
             THEN [st EXCEPT !.resizingPanel = i, !.moveOffsetX = mx - (baseX + w),
                             !.moveOffsetY = my - (baseY + h)]
             ELSE IF mx >= baseX /\ mx <= baseX + w /\ my >= baseY /\ my <= baseY + h
             THEN (IF ~p.Loaded THEN pressScan(i - 1, st)
                   ELSE IF row >= 0 /\ row < p.Rows /\ col >= 0 /\ col < p.Cols
                   THEN [OnCellClick([st EXCEPT !.activePanel = i], i, row, col)
                            EXCEPT !.selRow = row, !.selCol = col]
                   ELSE [st EXCEPT !.activePanel = i])
             ELSE pressScan(i - 1, st)

\* A move that stores the screen position of the cursor less the offset.
MovePanelScreen(ps, i, st) ==
    [ps EXCEPT ![i + 1].X = mouse.x - st.moveOffsetX,
               ![i + 1].Y = mouse.y - st.moveOffsetY]

\* The drag-move step on panel i.
MovePanel(ps, i, st) ==
    [ps EXCEPT ![i + 1].X = mouse.x - st.moveOffsetX - camX,
               ![i + 1].Y = mouse.y - st.moveOffsetY - camY]

\* The columns and rows the drag-resize step gives panel p.
ResizeCols(p, st) ==
    LET w == mouse.x - GetBounds(p, camX, camY).ContentX - st.moveOffsetX
        cols == Quot(IF w < 64 THEN 64 ELSE w, p.CellW)
    IN  IF cols < 1 THEN 1 ELSE cols

ResizeRows(p, st) ==
    LET h == mouse.y - GetBounds(p, camX, camY).ContentY - st.moveOffsetY
        rows == Quot(IF h < 32 THEN 32 ELSE h, p.CellH)
    IN  IF rows < 1 THEN 1 ELSE rows

\* The drag-resize step on panel i.
ResizePanel(ps, i, st) ==
    [ps EXCEPT ![i + 1] =
        [@ EXCEPT !.Cols = ResizeCols(ps[i + 1], st),
                  !.Rows = ResizeRows(ps[i + 1], st),
                  !.Cells = ResizedCells(ps[i + 1].Cells, ResizeCols(ps[i + 1], st),
                                         ResizeRows(ps[i + 1], st))]]

HandleCanvasInteraction ==
    /\ pc = "interact"
    /\ LET st1 == IF JustPressedLeft THEN pressScan(Len(panels) - 1, DragSel) ELSE DragSel
           moving == st1.movingPanel # -1 /\ mouse.left
           resizing == st1.resizingPanel # -1 /\ mouse.left
           \* c.panels[i] with i out of range panics
           panic == \/ moving /\ ~InBounds(st1.panels, st1.movingPanel)
                    \/ resizing /\ ~InBounds(st1.panels, st1.resizingPanel)
           ps1 == IF moving THEN MovePanel(st1.panels, st1.movingPanel, st1) ELSE st1.panels
           ps2 == IF resizing THEN ResizePanel(ps1, st1.resizingPanel, st1) ELSE ps1
           st2 == IF JustReleasedLeft
                  THEN [st1 EXCEPT !.movingPanel = -1, !.resizingPanel = -1]
                  ELSE st1
       IN  IF panic
           THEN /\ pc' = "crashed"
                /\ UNCHANGED <<panels, dragVars, selVars, editVars>>
           ELSE /\ pc' = "apply"
                /\ panels' = ps2
                /\ movingPanel' = st2.movingPanel
                /\ resizingPanel' = st2.resizingPanel
                /\ moveOffsetX' = st2.moveOffsetX
                /\ moveOffsetY' = st2.moveOffsetY
                /\ activePanel' = st2.activePanel
                /\ selRow' = st2.selRow
                /\ selCol' = st2.selCol
                /\ edit' = st2.edit
                /\ ui' = st2.ui
    /\ UNCHANGED <<call, camX, camY, pan, menu, mouse, loadVars, tick>>

\* A load worker finishes: it posts its completion message, space permitting.
WorkerPost ==
    /\ pc # "crashed"
    /\ Len(queue) < QueueCap
    /\ \E w \in inflight :
        /\ inflight' = inflight \ {w}
        /\ queue' = Append(queue, Completion(w))
        /\ panels' = WorkerStore(panels, w)
    /\ UNCHANGED <<call, camX, camY, dragVars, selVars, editVars, pan, menu, mouse,
                   nextId, diag, drained, atTick, pc, tick>>

\* SaveManager.ApplyPending, one turn of the drain loop: a queued result is
\* taken and applied.
ApplyPendingTake ==
    /\ pc = "apply"
    /\ ~DrainDone(queue, Len(drained))
    /\ panels' = ApplyResult(panels, Head(queue))
    /\ diag' = diag + Diagnostics(panels, Head(queue))
    /\ drained' = Append(drained, [r |-> Head(queue), before |-> panels])
    /\ queue' = Tail(queue)
    /\ UNCHANGED <<call, camX, camY, dragVars, selVars, editVars, pan, menu, mouse, inflight, nextId,
                   atTick, pc, tick>>

\* The drain loop finds the queue empty and ApplyPending returns.
ApplyPendingReturn ==
    /\ pc = "apply"
    /\ DrainDone(queue, Len(drained))
    /\ pc' = "resolve"
    /\ drained' = <<>>
    /\ UNCHANGED <<call, panels, camX, camY, dragVars, selVars, editVars, pan, menu, mouse,
                   inflight, queue, nextId, diag, atTick, tick>>

\* The resolver call that ends Canvas.Update.
ResolveOverlap ==
    /\ pc = "resolve"
    /\ panels' = resolveOneOverlap(panels, GetLockedPanels)
    /\ pc' = "menu"
    /\ UNCHANGED <<call, camX, camY, dragVars, selVars, editVars, pan, menu, mouse, loadVars, tick>>

\* ContextMenu.Update: the action selected, 0 for none, and whether the menu
\* stays visible.
MenuUpdate ==
    LET hover == Hover(menu, mouse.x, mouse.y)
        chose == menu.visible /\ JustPressedLeft /\ hover >= 0 /\ hover < MenuItems
        closed == \/ JustPressedLeft /\ hover < 0
                  \/ mouse.key = "escape"
                  \/ JustPressedRight
    IN  IF ~menu.visible THEN [action |-> "none", visible |-> FALSE]
        ELSE IF chose
        THEN [action |-> CASE hover = 0 -> "new"
                           [] hover = 1 -> "load"
                           [] hover = 2 -> "save"
                           [] hover = 3 -> "export"
                           [] hover = 4 -> "delete",
              visible |-> FALSE]
        ELSE [action |-> "none", visible |-> ~closed]

\* The panel a menu action acts on: the menu's target, else the active panel.
MenuTarget == IF menu.targetPanel < 0 THEN activePanel ELSE menu.targetPanel

HandleContextMenuInput ==
    /\ pc = "menu"
    /\ LET u == MenuUpdate
           wx == menu.x - camX
           wy == menu.y - camY
           target == MenuTarget
       IN  /\ menu' = [menu EXCEPT !.visible = u.visible]
           /\ CASE u.action = "new" ->
                    /\ panels' = AddPanelAt(panels, wx, wy)
                    /\ UNCHANGED <<selVars, inflight, queue, nextId>>
                [] u.action = "load" ->
                    \E choice \in DialogResults :
                        /\ (~choice.err) => nextId < MaxLoads
                        /\ IF choice.err
                           THEN UNCHANGED <<panels, inflight, queue, nextId>>
                           ELSE IF target < 0
                           THEN /\ panels' = AddPanelFromCSV(panels, Abs(choice.path), wx, wy).panels
                                /\ UNCHANGED <<inflight, queue, nextId>>
                           ELSE /\ inflight' = ScheduleLoad(inflight, nextId, target, Abs(choice.path),
                                                        PositionAt(panels, target))
                                /\ nextId' = nextId + 1
                                /\ UNCHANGED <<panels, queue>>
                        /\ UNCHANGED selVars
                [] u.action \in {"save", "export"} ->
                    UNCHANGED <<panels, selVars, inflight, queue, nextId>>
                [] u.action = "delete" ->
                    IF target < 0 \/ target >= Len(panels)
                    THEN UNCHANGED <<panels, selVars, inflight, queue, nextId>>
                    ELSE /\ panels' = RemovePanelAt(panels, target)
                         /\ IF Len(panels') = 0
                            THEN activePanel' = 0 /\ selRow' = 0 /\ selCol' = 0
                            ELSE IF activePanel >= Len(panels')
                            THEN /\ activePanel' = Len(panels') - 1
                                 /\ selRow' = 0
                                 /\ selCol' = 0
                            ELSE UNCHANGED selVars
                         \* history only: the loads keep their target
                         /\ inflight' = InflightAfterRemove(inflight, target)
                         /\ queue' = QueueAfterRemove(queue, target)
                         /\ UNCHANGED nextId
                [] OTHER -> UNCHANGED <<panels, selVars, inflight, queue, nextId>>
    /\ pc' = "nav"
    /\ UNCHANGED <<call, camX, camY, dragVars, editVars, pan, mouse, diag, drained, atTick,
                   tick>>

HandleSelectionNavigation ==
    /\ pc = "nav"
    /\ IF edit.editing \/ ~InBounds(panels, activePanel)
       THEN UNCHANGED <<selRow, selCol>>
       ELSE LET p == PanelAt(panels, activePanel)
            IN  /\ selRow' = IF mouse.key = "up" /\ selRow > 0 THEN selRow - 1
                              ELSE IF mouse.key = "down" /\ selRow < p.Rows - 1
                              THEN selRow + 1
                              ELSE selRow
                /\ selCol' = IF mouse.key = "left" /\ selCol > 0 THEN selCol - 1
                              ELSE IF mouse.key = "right" /\ selCol < p.Cols - 1
                              THEN selCol + 1
                              ELSE selCol
    /\ pc' = "ui"
    /\ UNCHANGED <<call, panels, camX, camY, dragVars, activePanel, editVars, pan, menu, mouse,
                   loadVars, tick>>

\* The characters ebiten.InputChars reports for a key.
InputChars(key) == IF key = "x" THEN <<"x">> ELSE <<>>

\* s with the character r put in at position cursor.
InsertAt(s, cursor, r) == SubSeq(s, 1, cursor) \o r \o SubSeq(s, cursor + 1, Len(s))

\* s without the character before position cursor.
DeleteBefore(s, cursor) == SubSeq(s, 1, cursor - 1) \o SubSeq(s, cursor + 1, Len(s))

\* UI.handleTextInput, for the characters chars.
RECURSIVE handleTextInput(_, _)
handleTextInput(e, chars) ==
    IF chars = <<>> THEN e
    ELSE handleTextInput(
            IF e.editingPanelName
            THEN [e EXCEPT !.editPanelBuffer = InsertAt(@, e.editPanelCursor, Head(chars)),
                           !.editPanelCursor = @ + 1]
            ELSE [e EXCEPT !.editBuffer = InsertAt(@, e.editCursor, Head(chars)),
                           !.editCursor = @ + 1],
            Tail(chars))

\* UI.handleEditingNavigation
handleEditingNavigation(e, key) ==
    LET name == e.editingPanelName
        cur == IF name THEN e.editPanelCursor ELSE e.editCursor
        buf == IF name THEN e.editPanelBuffer ELSE e.editBuffer
        With(c, b) == IF name
                      THEN [e EXCEPT !.editPanelCursor = c, !.editPanelBuffer = b]
                      ELSE [e EXCEPT !.editCursor = c, !.editBuffer = b]
    IN  CASE key = "left" -> IF cur > 0 THEN With(cur - 1, buf) ELSE e
          [] key = "right" -> IF cur < RuneLen(buf) THEN With(cur + 1, buf) ELSE e
          [] key = "backspace" ->
                IF cur > 0 THEN With(cur - 1, DeleteBefore(buf, cur)) ELSE e
          [] key = "delete" ->
                IF cur < RuneLen(buf) THEN With(cur, DeleteBefore(buf, cur + 1)) ELSE e
          [] key = "home" -> With(0, buf)
          [] key = "end" -> With(RuneLen(buf), buf)
          [] OTHER -> e

\* UI.handleCommitCancel: the editing fields and the panels afterwards.
handleCommitCancel(e, ps, key) ==
    LET e1 == IF key # "enter" THEN e
              ELSE IF e.editingPanelName THEN [e EXCEPT !.editingPanelName = FALSE]
              ELSE [e EXCEPT !.editing = FALSE]
        ps1 == IF key # "enter" THEN ps
               ELSE IF e.editingPanelName
               THEN (IF InBounds(ps, e.editPanelIndex)
                     THEN [ps EXCEPT ![e.editPanelIndex + 1].Name = e.editPanelBuffer]
                     ELSE ps)
               ELSE CommitCell(ps, activePanel, selCol, selRow, e.editBuffer)
        e2 == IF key = "escape" /\ ~menu.visible
              THEN [e1 EXCEPT !.editing = FALSE, !.editingPanelName = FALSE]
              ELSE e1
    IN  [edit |-> e2, panels |-> ps1]

\* UI.Update.  Click logging and the caret blink change only what is drawn;
\* the keys of a run hold no Ctrl chord, so handleShortcuts does nothing.
UIUpdate ==
    /\ pc = "ui"
    /\ IF ~edit.editing /\ ~edit.editingPanelName
       THEN /\ edit' = IF mouse.key = "enter" /\ InBounds(panels, activePanel)
                       THEN StartEditing(edit, GetCell(PanelAt(panels, activePanel),
                                                       selCol, selRow))
                       ELSE edit
            /\ UNCHANGED panels
       ELSE LET e1 == handleTextInput(edit, InputChars(mouse.key))
                e2 == handleEditingNavigation(e1, mouse.key)
                r == handleCommitCancel(e2, panels, mouse.key)
            IN  /\ edit' = r.edit
                /\ panels' = r.panels
    /\ pc' = "switch"
    /\ UNCHANGED <<call, camX, camY, dragVars, selVars, ui, pan, menu, mouse, loadVars, tick>>

HandlePanelSwitching ==
    /\ pc = "switch"
    /\ IF mouse.key = "tab" /\ Len(panels) # 0
       THEN /\ activePanel' = (activePanel + 1) % Len(panels)
            /\ selRow' = 0
            /\ selCol' = 0
       ELSE UNCHANGED selVars
    /\ pc' = "poll"
    /\ UNCHANGED <<call, panels, camX, camY, dragVars, editVars, pan, menu, mouse, loadVars, tick>>

Next ==
    \/ NewGameLoadState
    \/ PollInput
    \/ HandlePanInput
    \/ HandleCanvasInteraction
    \/ ApplyPendingTake
    \/ ApplyPendingReturn
    \/ ResolveOverlap
    \/ HandleContextMenuInput
    \/ HandleSelectionNavigation
    \/ UIUpdate
    \/ HandlePanelSwitching
    \/ WorkerPost

Spec == Init /\ [][Next]_vars

\* Longer runs of a user who works the context menu only: the cursor stays
\* on three of the positions.
MaxDrainTicks == 7

DrainPts == {<<110, 51>>, <<110, 81>>, <<110, 170>>}

\* The state file of these runs names one panel.
DrainManifests == {<<[x |-> 100, y |-> 100, file |-> "a.csv"]>>}

NewGameDrain == NewGame(DrainManifests)

PollInputDrain == Poll(DrainPts, Buttons, {"none"}, {FALSE}, MaxDrainTicks)

NextDrain ==
    \/ NewGameDrain
    \/ PollInputDrain
    \/ HandlePanInput
    \/ HandleCanvasInteraction
    \/ ApplyPendingTake
    \/ ApplyPendingReturn
    \/ ResolveOverlap
    \/ HandleContextMenuInput
    \/ HandleSelectionNavigation
    \/ UIUpdate
    \/ HandlePanelSwitching
    \/ WorkerPost

SpecDrain == Init /\ [][NextDrain]_vars

\* Runs of the same user on a canvas of two panels, a loaded one and a blank
\* one to its right.
MaxRemoveTicks == 7

RemoveManifests ==
    {<<[x |-> 100, y |-> 100, file |-> "a.csv"], [x |-> 300, y |-> 100, file |-> ""]>>}

NewGameRemove == NewGame(RemoveManifests)

PollInputRemove == Poll(DrainPts, Buttons, {"none"}, {FALSE}, MaxRemoveTicks)

NextRemove ==
    \/ NewGameRemove
    \/ PollInputRemove
    \/ HandlePanInput
    \/ HandleCanvasInteraction
    \/ ApplyPendingTake
    \/ ApplyPendingReturn
    \/ ResolveOverlap
    \/ HandleContextMenuInput
    \/ HandleSelectionNavigation
    \/ UIUpdate
    \/ HandlePanelSwitching
    \/ WorkerPost

SpecRemove == Init /\ [][NextRemove]_vars

\* Runs in which the frames keep coming after the user has stopped: for
\* MaxFairTicks ticks the user works the context menu, pressing the left
\* button only on an open menu and never on its first item (New Panel), then
\* lets go of the mouse.
MaxFairTicks == 6

NewGameFair == NewGame(DrainManifests)

PollInputFair ==
    /\ Poll(DrainPts, Buttons, {"none"}, {FALSE}, MaxFairTicks)
    /\ mouse'.left => (~mouse.left /\ ~mouse.right /\ menu.visible)
    /\ mouse'.left => Hover(menu, mouse'.x, mouse'.y) # 0

\* A frame without input: the buttons are up and the cursor stays.
PollIdle ==
    /\ pc = "poll"
    /\ tick >= MaxFairTicks
    /\ mouse' = [x |-> mouse.x, y |-> mouse.y, left |-> FALSE, right |-> FALSE,
                 leftWas |-> mouse.left, rightWas |-> mouse.right,
                 key |-> "none", quick |-> FALSE]
    /\ atTick' = QueueIds(queue)
    /\ pc' = "pan"
    /\ UNCHANGED <<call, panels, camX, camY, dragVars, selVars, editVars, pan, menu,
                   inflight, queue, nextId, diag, drained, tick>>

\* The steps of the interactive thread.
TickFair ==
    \/ NewGameFair
    \/ PollInputFair
    \/ PollIdle
    \/ HandlePanInput
    \/ HandleCanvasInteraction
    \/ ApplyPendingTake
    \/ ApplyPendingReturn
    \/ ResolveOverlap
    \/ HandleContextMenuInput
    \/ HandleSelectionNavigation
    \/ UIUpdate
    \/ HandlePanelSwitching

NextFair ==
    \/ TickFair
    \/ WorkerPost

\* Ebiten calls Game.Update on every frame, and a load worker that can post
\* its message does so.
SpecFair == Init /\ [][NextFair]_vars /\ WF_vars(TickFair) /\ WF_vars(WorkerPost)

\* Runs of a user who edits and resizes one panel: the cursor is on cell B2
\* or on the resize handle of the panel the state file names, the left button
\* and the keyboard are used.  Without the right button there is no context
\* menu, so no load is scheduled: no load worker runs and the drain loop of
\* ApplyPending finds the queue empty.
MaxEditTicks == 6

EditPts == {<<190, 130>>, <<250, 140>>}

EditButtons == {"none", "left"}

EditKeys == {"none", "enter", "x", "right", "backspace", "tab", "escape"}

NewGameEdit == NewGame(DrainManifests)

PollInputEdit == Poll(EditPts, EditButtons, EditKeys, BOOLEAN, MaxEditTicks)

NextEdit ==
    \/ NewGameEdit
    \/ PollInputEdit
    \/ HandlePanInput
    \/ HandleCanvasInteraction
    \/ ApplyPendingReturn
    \/ ResolveOverlap
    \/ HandleContextMenuInput
    \/ HandleSelectionNavigation
    \/ UIUpdate
    \/ HandlePanelSwitching

SpecEdit == Init /\ [][NextEdit]_vars

\* ------------------------------------------------------------- load claims
\* A step of the drain loop that takes the head of the queue.
IsTake == pc = "apply" /\ queue # <<>> /\ queue' = Tail(queue)

\* A step of a load worker: a load leaves the in-flight set.
IsWorkerStep == inflight' # inflight /\ inflight' \subseteq inflight

\* The last result the running ApplyPending took.
LastTaken == drained[Len(drained)]

DrainedIds == {drained[i].r.id : i \in DOMAIN drained}

\* C5: when ApplyPending merges a successful result into a panel, the panel
\* keeps the position it had immediately before the merge (whatever its
\* position at scheduling time, and whatever position the parsed content
\* carries), while its size, cells and filename are those of the loaded file
\* and it is marked loaded.
C5_LoadMergePreservesPosition ==
    [][(IsTake /\ ~Head(queue).err /\ InBounds(panels, Head(queue).target)) =>
        LET r == Head(queue)
            t == r.target + 1
            file == ParseDetached(r.path).p
        IN  /\ Len(panels') = Len(panels)
            /\ panels'[t].X = panels[t].X
            /\ panels'[t].Y = panels[t].Y
            /\ panels'[t].Cols = file.Cols
            /\ panels'[t].Rows = file.Rows
            /\ panels'[t].Cells = file.Cells
            /\ panels'[t].Filename = Base(r.path)
            /\ panels'[t].Loaded
            /\ \A k \in DOMAIN panels : k # t => panels'[k] = panels[k]]_vars

\* A successful result has just been merged into the only panel, which the
\* user dragged away from where it was when the load was scheduled.
C5_Witness ==
    /\ pc = "apply"
    /\ drained # <<>>
    /\ Len(panels) = 1
    /\ ~LastTaken.r.err
    /\ LastTaken.r.target = 0
    /\ LastTaken.r.at # <<>>
    /\ LastTaken.r.at # PositionAt(LastTaken.before, 0)
    /\ PositionAt(panels, 0) = PositionAt(LastTaken.before, 0)
    /\ PositionAt(panels, 0) # <<LastTaken.r.content.X, LastTaken.r.content.Y>>
    /\ panels[1].Loaded
    /\ panels[1].Filename = "b.csv"
    /\ panels[1].Cells # LastTaken.before[1].Cells

\* C6: when ApplyPending drains a failed result whose target panel exists, it
\* marks that panel not loaded, keeps its filename or sets it to the file's
\* name, emits exactly one diagnostic, leaves the panel's position and every
\* other panel unchanged, and the tick loop goes on.
C6_LoadFailureNonFatal ==
    [][(IsTake /\ Head(queue).err /\ InBounds(panels, Head(queue).target)) =>
        LET r == Head(queue)
            t == r.target + 1
        IN  /\ Len(panels') = Len(panels)
            /\ ~panels'[t].Loaded
            /\ panels'[t].Filename \in {panels[t].Filename, Base(r.path)}
            /\ panels'[t].X = panels[t].X
            /\ panels'[t].Y = panels[t].Y
            /\ \A k \in DOMAIN panels : k # t => panels'[k] = panels[k]
            /\ diag' = diag + 1
            /\ pc' = "apply"]_vars

\* A failed result has just been drained onto a panel that was loaded.
C6_Witness ==
    /\ pc = "apply"
    /\ drained # <<>>
    /\ LastTaken.r.err
    /\ InBounds(LastTaken.before, LastTaken.r.target)
    /\ LastTaken.before[LastTaken.r.target + 1].Loaded
    /\ ~panels[LastTaken.r.target + 1].Loaded
    /\ diag = 1

\* C7: a result whose target index is out of range when ApplyPending drains
\* it is discarded: the panels are left exactly as they were, nothing is
\* reported, and the drain loop goes on.
C7_OutOfBoundsResultDiscarded ==
    [][(IsTake /\ ~InBounds(panels, Head(queue).target)) =>
        /\ panels' = panels
        /\ diag' = diag
        /\ pc' = "apply"]_vars

\* A result has just been discarded whose target panel existed when the load
\* was scheduled and was removed while the load was in flight.
C7_Witness ==
    /\ pc = "apply"
    /\ drained # <<>>
    /\ LastTaken.r.at # <<>>
    /\ ~InBounds(LastTaken.before, LastTaken.r.target)
    /\ panels = LastTaken.before

\* C8: a load worker's step changes neither the panels nor the camera; all
\* it does is post the completion message of its load to the queue.  The
\* panels and the camera change only in steps of the tick loop.
C8_SingleWriterStore ==
    [][/\ IsWorkerStep =>
            /\ panels' = panels
            /\ camX' = camX
            /\ camY' = camY
            /\ \E w \in inflight :
                /\ inflight' = inflight \ {w}
                /\ queue' = Append(queue, Completion(w))
            /\ UNCHANGED <<call, dragVars, selVars, editVars, pan, menu, mouse, nextId, diag, drained,
                           atTick, pc, tick>>
       /\ (panels' # panels \/ camX' # camX \/ camY' # camY) =>
            /\ ~IsWorkerStep
            /\ pc \in {"start", "pan", "interact", "apply", "resolve", "menu", "ui"}
            /\ pc' # pc \/ IsTake]_vars

\* A worker posted its message between ApplyPending and the resolver of the
\* same tick, with panels on the canvas.
C8_Witness ==
    /\ pc = "resolve"
    /\ queue # <<>>
    /\ panels # <<>>

\* C9: when ApplyPending returns, the queue is empty, every result that was
\* queued when the tick began has been taken, and the panels are the result
\* of applying the taken results one after the other; with the queue empty
\* ApplyPending can return.
C9_DrainsEveryQueuedResult ==
    [][/\ (pc = "apply" /\ pc' = "resolve") =>
            /\ queue = <<>>
            /\ atTick \subseteq DrainedIds
            /\ \A i \in DOMAIN drained :
                (IF i < Len(drained) THEN drained[i + 1].before ELSE panels)
                    = ApplyResult(drained[i].before, drained[i].r)
       /\ (pc = "apply" /\ queue = <<>>) => ENABLED ApplyPendingReturn]_vars

\* ApplyPending is about to return having taken the two results that were
\* queued when the tick began.
C9_Witness ==
    /\ pc = "apply"
    /\ queue = <<>>
    /\ Cardinality(atTick) = 2
    /\ atTick \subseteq DrainedIds

\* C10: every panel has at least one column and one row.
C10_GridSizeAtLeastOne ==
    \A i \in DOMAIN panels : panels[i].Cols >= 1 /\ panels[i].Rows >= 1

\* ------------------------------------------------------------- cell claims
\* C11: every key of every panel's cell mapping refers to a column and a row
\* inside that panel's current bounds.
C11_CellKeysInBounds ==
    \A i \in DOMAIN panels :
        \A k \in DOMAIN panels[i].Cells :
            LET r == ParseCellRef(k)
            IN  /\ ~r.err
                /\ r.col >= 0 /\ r.col < panels[i].Cols
                /\ r.row >= 0 /\ r.row < panels[i].Rows

\* A step of HandleCanvasInteraction in which the resize branch ran.
IsResizeStep == pc = "interact" /\ pc' = "apply" /\ mouse.left /\ resizingPanel' # -1

\* The key k refers to a cell inside cols x rows.
KeyInside(k, cols, rows) ==
    LET r == ParseCellRef(k)
    IN  ~r.err /\ r.col >= 0 /\ r.col < cols /\ r.row >= 0 /\ r.row < rows

\* C12: a resize step leaves in the cell mapping exactly the old entries
\* whose column and row lie inside the new bounds, with their values, and
\* nothing else; so a cell that read as empty before the resize reads as empty
\* after it, and growing a panel back restores nothing.  The other panels are
\* left alone.
C12_ResizeKeepsExactlyInBounds ==
    [][IsResizeStep =>
        LET t == resizingPanel' + 1
            old == panels[t]
            new == panels'[t]
        IN  /\ Len(panels') = Len(panels)
            /\ DOMAIN new.Cells = {k \in DOMAIN old.Cells : KeyInside(k, new.Cols, new.Rows)}
            /\ \A k \in DOMAIN new.Cells : new.Cells[k] = old.Cells[k]
            /\ \A c \in 0 .. new.Cols - 1, r \in 0 .. new.Rows - 1 :
                GetCell(old, c, r) = "" => GetCell(new, c, r) = ""
            /\ \A k \in DOMAIN panels : k # t => panels'[k] = panels[k]]_vars

\* The 2x2 panel of a.csv was shrunk to 1x1 and has just been grown back to
\* 2x2 in the third tick: A1 kept its value and B2, dropped by the shrink,
\* reads as empty.
C12_Witness ==
    /\ pc = "apply"
    /\ tick = 3
    /\ resizingPanel = 0
    /\ mouse.left
    /\ Len(panels) = 1
    /\ panels[1].Cols = 2
    /\ panels[1].Rows = 2
    /\ GetCell(panels[1], 0, 0) = "x"
    /\ GetCell(panels[1], 1, 1) = ""

\* ------------------------------------------------------------- operations called on their own
\* The operations of the panel store and of a panel, called directly on a
\* canvas as the state load leaves it, with any camera offset.
MaxCalls == 2

OpsCams == {<<0, 0>>, <<-7, 13>>}

CellArgs == {0, 26}

CellVals == {"", "v", "w"}

IndexArgs == -1 .. 2

OpsPoints == {<<-5, 0>>, <<40, 60>>}

OpsPaths == {Path(WorkDir, "a.csv"), Path(WorkDir, "empty.csv"), Path(WorkDir, "gone.csv"),
             Path(WorkDir, "bad.csv")}

\* The receivers of the cell operations: nil, the zero Panel, a blank panel.
Receivers ==
    {Receiver(TRUE, FALSE, NewBlankPanel(0, 0, 5, 5)),
     Receiver(FALSE, TRUE, NewBlankPanel(0, 0, 5, 5)),
     Receiver(FALSE, FALSE, NewBlankPanel(0, 0, 5, 5))}

\* The record of a call: its arguments, the receiver and the panels before
\* it, and what it returned.
Call(op, recv, before, a, b, val, path, result, err, panelsBefore) ==
    [op |-> op, recv |-> recv, before |-> before, a |-> a, b |-> b, val |-> val,
     path |-> path, result |-> result, err |-> err, panelsBefore |-> panelsBefore]

NoBounds == GetBounds(NewBlankPanel(0, 0, 0, 0), 0, 0)

InitOps ==
    /\ panels \in {LoadState(<<>>, m) : m \in Manifests}
    /\ \E cam \in OpsCams : camX = cam[1] /\ camY = cam[2]
    /\ movingPanel = -1
    /\ resizingPanel = -1
    /\ moveOffsetX = 0
    /\ moveOffsetY = 0
    /\ activePanel = 0
    /\ selRow = 0
    /\ selCol = 0
    /\ edit = NoEdit
    /\ ui = NewUI
    /\ pan = NoPan
    /\ menu = NewContextMenu
    /\ mouse = NoMouse
    /\ inflight = {}
    /\ queue = <<>>
    /\ nextId = 0
    /\ diag = 0
    /\ drained = <<>>
    /\ atTick = {}
    /\ pc = "ops"
    /\ tick = 0
    /\ \E recv \in Receivers :
        call = Call("new", recv, recv, 0, 0, "", Path(WorkDir, ""), NoBounds, FALSE, panels)

opsFrame == <<camX, camY, dragVars, selVars, editVars, pan, menu, mouse, loadVars, pc>>

CallSetCell ==
    /\ pc = "ops"
    /\ tick < MaxCalls
    /\ \E col \in CellArgs, row \in CellArgs, val \in CellVals :
        call' = Call("SetCell", SetCellOn(call.recv, col, row, val), call.recv, col, row, val,
                     Path(WorkDir, ""), NoBounds, FALSE, panels)
    /\ tick' = tick + 1
    /\ UNCHANGED <<panels, opsFrame>>

CallGetCell ==
    /\ pc = "ops"
    /\ tick < MaxCalls
    /\ \E col \in CellArgs, row \in CellArgs :
        call' = Call("GetCell", call.recv, call.recv, col, row,
                     GetCellOn(call.recv, col, row), Path(WorkDir, ""), NoBounds, FALSE,
                     panels)
    /\ tick' = tick + 1
    /\ UNCHANGED <<panels, opsFrame>>

CallRemovePanelAt ==
    /\ pc = "ops"
    /\ tick < MaxCalls
    /\ \E i \in IndexArgs :
        /\ panels' = RemovePanelAt(panels, i)
        /\ call' = Call("RemovePanelAt", call.recv, call.recv, i, 0, "", Path(WorkDir, ""),
                        NoBounds, FALSE, panels)
    /\ tick' = tick + 1
    /\ UNCHANGED opsFrame

CallAddPanelAt ==
    /\ pc = "ops"
    /\ tick < MaxCalls
    /\ \E pt \in OpsPoints :
        /\ panels' = AddPanelAt(panels, pt[1], pt[2])
        /\ call' = Call("AddPanelAt", call.recv, call.recv, pt[1], pt[2], "",
                        Path(WorkDir, ""), NoBounds, FALSE, panels)
    /\ tick' = tick + 1
    /\ UNCHANGED opsFrame

CallAddPanelFromCSV ==
    /\ pc = "ops"
    /\ tick < MaxCalls
    /\ \E pt \in OpsPoints, path \in OpsPaths :
        /\ panels' = AddPanelFromCSV(panels, path, pt[1], pt[2]).panels
        /\ call' = Call("AddPanelFromCSV", call.recv, call.recv, pt[1], pt[2], "", path,
                        NoBounds, AddPanelFromCSV(panels, path, pt[1], pt[2]).err, panels)
    /\ tick' = tick + 1
    /\ UNCHANGED opsFrame

CallGetBounds ==
    /\ pc = "ops"
    /\ tick < MaxCalls
    /\ \E i \in Indices(panels) :
        call' = Call("GetBounds", call.recv, call.recv, i, 0, "", Path(WorkDir, ""),
                     GetBounds(PanelAt(panels, i), camX, camY), FALSE, panels)
    /\ tick' = tick + 1
    /\ UNCHANGED <<panels, opsFrame>>

NextOps ==
    \/ CallSetCell
    \/ CallGetCell
    \/ CallRemovePanelAt
    \/ CallAddPanelAt
    \/ CallAddPanelFromCSV
    \/ CallGetBounds

SpecOps == InitOps /\ [][NextOps]_vars

\* ------------------------------------------------------------- store and cell claims
IsCall(op) == call'.op = op /\ tick' = tick + 1

\* The key of (col, row) is absent from the receiver's mapping.
KeyAbsent(recv, col, row) ==
    recv.isNil \/ recv.cellsNil \/ CellRef(col, row) \notin DOMAIN recv.p.Cells

\* C13: sparse cell storage.  On a panel, SetCell(col, row, v) with a
\* non-empty v makes GetCell(col, row) return v, both read off the panel and
\* as the result of the GetCell call that follows; SetCell(col, row, "")
\* leaves the key absent from the mapping; GetCell of an absent key, on a nil
\* panel or on a nil mapping returns ""; and SetCell leaves every other key
\* as it was, present with the same value or absent.
C13_SparseCellStorage ==
    [][/\ (IsCall("SetCell") /\ ~call'.before.isNil) =>
            LET b == call'.before
                r == call'.recv
                key == CellRef(call'.a, call'.b)
            IN  /\ ~r.isNil /\ ~r.cellsNil
                /\ call'.val # "" => GetCellOn(r, call'.a, call'.b) = call'.val
                /\ call'.val = "" => key \notin DOMAIN r.p.Cells
                /\ \A k \in (DOMAIN r.p.Cells) \ {key} :
                       ~b.cellsNil /\ k \in DOMAIN b.p.Cells /\ b.p.Cells[k] = r.p.Cells[k]
                /\ ~b.cellsNil => \A k \in (DOMAIN b.p.Cells) \ {key} : k \in DOMAIN r.p.Cells
                /\ \A c \in CellArgs, w \in CellArgs :
                       <<c, w>> # <<call'.a, call'.b>> =>
                           GetCellOn(r, c, w) = GetCellOn(b, c, w)
       /\ (IsCall("GetCell") /\ call.op = "SetCell" /\ ~call.recv.isNil /\ call.val # ""
              /\ call'.a = call.a /\ call'.b = call.b) => call'.val = call.val
       /\ (IsCall("GetCell") /\ KeyAbsent(call'.before, call'.a, call'.b)) => call'.val = ""
       /\ IsCall("GetCell") => call'.recv = call'.before]_vars

\* A SetCell("") has just removed a key that held a value, next to a key
\* that keeps its value.
C13_Witness ==
    /\ call.op = "SetCell"
    /\ call.val = ""
    /\ ~call.before.isNil /\ ~call.before.cellsNil
    /\ CellRef(call.a, call.b) \in DOMAIN call.before.p.Cells
    /\ tick = 2

\* C14: RemovePanelAt with an index outside [0, len(panels)), -1 and
\* len(panels) among them, leaves the panels as they were, in number, content
\* and order, and the call returns normally.
C14_RemoveOutOfBoundsNoOp ==
    [][(IsCall("RemovePanelAt") /\ (call'.a < 0 \/ call'.a >= Len(panels))) =>
           /\ panels' = panels
           /\ pc' = pc]_vars

\* RemovePanelAt(len(panels)) has returned on a canvas that holds panels.
C14_Witness ==
    /\ call.op = "RemovePanelAt"
    /\ Len(call.panelsBefore) > 0
    /\ call.a = Len(call.panelsBefore)
    /\ panels = call.panelsBefore

\* C15: GetBounds of a panel under a camera offset returns content
\* position = panel position + camera offset, content size = columns and rows
\* times the cell size, total position = content position less the horizontal
\* padding and the header height, total size = content size plus twice the
\* padding and the header height, and the call changes neither the panels nor
\* the camera.
C15_GetBoundsFormulas ==
    [][IsCall("GetBounds") =>
           LET p == PanelAt(panels, call'.a)
               r == call'.result
           IN  /\ r.ContentX = p.X + camX
               /\ r.ContentY = p.Y + camY
               /\ r.ContentW = p.Cols * p.CellW
               /\ r.ContentH = p.Rows * p.CellH
               /\ r.TotalX = r.ContentX - PanelPaddingX
               /\ r.TotalY = r.ContentY - PanelHeaderHeight
               /\ r.TotalW = r.ContentW + 2 * PanelPaddingX
               /\ r.TotalH = r.ContentH + PanelHeaderHeight + 2 * PanelPaddingY
               /\ panels' = panels
               /\ camX' = camX
               /\ camY' = camY]_vars

\* GetBounds has returned for a panel with cells under a camera offset that
\* is not zero.
C15_Witness ==
    /\ call.op = "GetBounds"
    /\ camX # 0
    /\ camY # 0
    /\ call.a \in Indices(panels)
    /\ PanelAt(panels, call.a).Cols > 0
    /\ call.result.ContentX = PanelAt(panels, call.a).X + camX
    /\ call.result.TotalH > PanelHeaderHeight

\* C17: AddPanelFromCSV either fails and leaves the panels as they were, or
\* succeeds and appends exactly one panel, at the given position, loaded, named
\* after the base name of the path, after the unchanged existing panels; and it
\* fails when the file cannot be read or parsed.
C17_AddFromCSVAllOrNothing ==
    [][IsCall("AddPanelFromCSV") =>
           /\ ReadAll(call'.path).err => call'.err
           /\ IF call'.err
              THEN panels' = panels
              ELSE /\ Len(panels') = Len(panels) + 1
                   /\ SubSeq(panels', 1, Len(panels)) = panels
                   /\ panels'[Len(panels')].X = call'.a
                   /\ panels'[Len(panels')].Y = call'.b
                   /\ panels'[Len(panels')].Loaded
                   /\ panels'[Len(panels')].Filename = Base(call'.path)]_vars

\* A load that failed directly after one that succeeded: the panel of the
\* first call is the last one.
C17_Witness ==
    /\ call.op = "AddPanelFromCSV"
    /\ call.err
    /\ tick = 2
    /\ Len(panels) = 2
    /\ panels = call.panelsBefore
    /\ panels[2].X = 40
    /\ panels[2].Filename = "a.csv"

\* C18: AddPanelAt appends exactly one panel after the unchanged existing
\* panels, at the given world position, with no cells, no filename and
\* loaded = true, and the call returns normally.
C18_AddPanelAtAppendsBlank ==
    [][IsCall("AddPanelAt") =>
           /\ Len(panels') = Len(panels) + 1
           /\ SubSeq(panels', 1, Len(panels)) = panels
           /\ panels'[Len(panels')].X = call'.a
           /\ panels'[Len(panels')].Y = call'.b
           /\ panels'[Len(panels')].Cells = EmptyCells
           /\ panels'[Len(panels')].Filename = ""
           /\ panels'[Len(panels')].Loaded
           /\ pc' = pc]_vars

\* A blank panel has been added on top of the panels of a loaded state.
C18_Witness ==
    /\ call.op = "AddPanelAt"
    /\ Len(call.panelsBefore) = 2
    /\ Len(panels) = 3
    /\ panels[3].X = -5
    /\ panels[3].Cells = EmptyCells
    /\ panels[1].Filename = "a.csv"

\* ------------------------------------------------------------- camera claims
\* The interaction stage has run its drag-move branch.
IsDragStep == pc = "interact" /\ pc' = "apply" /\ mouse.left /\ movingPanel' # -1

\* C16: a step that changes the camera offset changes no panel's (X, Y) and
\* no panel at all; and after a drag step the content position GetBounds gives
\* the dragged panel under the current camera offset is the cursor less the
\* grab offset.
C16_CameraIndependence ==
    [][/\ (camX' # camX \/ camY' # camY) =>
              /\ Len(panels') = Len(panels)
              /\ \A i \in DOMAIN panels :
                     panels'[i].X = panels[i].X /\ panels'[i].Y = panels[i].Y
       /\ IsDragStep =>
              LET b == GetBounds(PanelAt(panels', movingPanel'), camX', camY')
              IN  /\ b.ContentX = mouse.x - moveOffsetX'
                  /\ b.ContentY = mouse.y - moveOffsetY']_vars

\* A panel has been dragged away from where the state load put it, under a
\* camera offset that an earlier pan made non-zero.
C16_Witness ==
    /\ pc = "apply"
    /\ mouse.left
    /\ movingPanel = 0
    /\ camX # 0
    /\ camY # 0
    /\ Len(panels) >= 1
    /\ panels[1].X \notin {100, 300}
    /\ GetBounds(panels[1], camX, camY).ContentX = mouse.x - moveOffsetX

\* ------------------------------------------------------------- resolver in the tick loop
\* The resolver call of a tick.
IsResolverStep == pc = "resolve" /\ pc' = "menu"

SpecResolverFair == InitResolver /\ [][NextResolver]_vars /\ WF_vars(ResolverTick)

\* Every pair of panels whose vertical spans overlap is at least panelGap
\* apart horizontally.
Settled ==
    \A i \in Indices(panels), j \in Indices(panels) :
        (i < j /\ OverlapY(PanelAt(panels, i), PanelAt(panels, j)) > 0) =>
            HGap(PanelAt(panels, i), PanelAt(panels, j)) >= panelGap

\* C22: from any layout with no panel locked, repeated resolver ticks
\* eventually reach, and then stay in, a state where every pair of panels
\* whose vertical spans overlap is at least panelGap apart horizontally.
C22_ResolverConverges == (GetLockedPanels = {}) => <>[]Settled

\* ------------------------------------------------------------- load ordering claims
\* C24: results are merged in the order they complete: a worker's message
\* goes to the back of the queue, ApplyPending takes the message at the front,
\* and a successful result taken for a panel gives that panel the size, cells
\* and filename of its own file, whatever load was scheduled first; so with
\* two loads in flight for one target the panel ends with the content and
\* filename of the result drained last.
C24_CompletionOrderMerge ==
    [][/\ IsWorkerStep =>
              \E w \in inflight :
                  /\ inflight' = inflight \ {w}
                  /\ queue' = Append(queue, Completion(w))
       /\ IsTake =>
              /\ drained' = Append(drained, [r |-> Head(queue), before |-> panels])
              /\ (~Head(queue).err /\ InBounds(panels, Head(queue).target)) =>
                     LET r == Head(queue)
                         t == r.target + 1
                     IN  /\ panels'[t].Cells = r.content.Cells
                         /\ panels'[t].Cols = r.content.Cols
                         /\ panels'[t].Rows = r.content.Rows
                         /\ panels'[t].Filename = Base(r.path)]_vars

\* Two loads of different files for one panel were drained in one call, the
\* load scheduled second first: the panel holds the file of the load scheduled
\* first, which was drained last.
C24_Witness ==
    /\ pc = "apply"
    /\ Len(drained) = 2
    /\ drained[1].r.id = 1
    /\ drained[2].r.id = 0
    /\ drained[1].r.target = drained[2].r.target
    /\ ~drained[1].r.err
    /\ ~drained[2].r.err
    /\ drained[1].r.path # drained[2].r.path
    /\ InBounds(panels, drained[2].r.target)
    /\ panels[drained[2].r.target + 1].Filename = Base(drained[2].r.path)
    /\ panels[drained[2].r.target + 1].Cells = drained[2].r.content.Cells
    /\ panels[drained[2].r.target + 1].Cells # drained[1].r.content.Cells

\* C25: a result taken by ApplyPending changes no panel but the one the
\* load was scheduled for: when the panel at the result's target index is not
\* the panel that was there when the load was scheduled, a successful result
\* leaves its size, cells and filename alone and a failed result leaves its
\* loaded flag alone.
C25_MergedIntoScheduledPanel ==
    [][(IsTake /\ InBounds(panels, Head(queue).target)
           /\ Head(queue).owner # Head(queue).target) =>
           LET r == Head(queue)
               t == r.target + 1
           IN  /\ ~r.err =>
                      /\ panels'[t].Cells = panels[t].Cells
                      /\ panels'[t].Cols = panels[t].Cols
                      /\ panels'[t].Rows = panels[t].Rows
                      /\ panels'[t].Filename = panels[t].Filename
               /\ r.err => panels'[t].Loaded = panels[t].Loaded]_vars

\* ------------------------------------------------------------- load protocol claim
InflightIds == {w.id : w \in inflight}

\* Load id has been scheduled and is neither in flight nor queued.
Finished(id) == id < nextId /\ id \notin InflightIds /\ id \notin QueueIds(queue)

C26_DragIndicesValid ==
    /\ mouse.left =>
           /\ movingPanel = -1 \/ InBounds(panels, movingPanel)
           /\ resizingPanel = -1 \/ InBounds(panels, resizingPanel)
    /\ pc # "crashed"

\* C27: at the end of every tick with a non-empty collection, activePanel is
\* the index of a panel and the selected cell lies inside that panel.
C27_SelectionInsideActivePanel ==
    (pc = "poll" /\ Len(panels) > 0) =>
        /\ InBounds(panels, activePanel)
        /\ 0 <= selCol /\ selCol < panels[activePanel + 1].Cols
        /\ 0 <= selRow /\ selRow < panels[activePanel + 1].Rows

\* ------------------------------------------------------------- saving the state
\* fmt's %d for a non-negative integer, as a string.
RECURSIVE Sprintd(_)
Sprintd(n) ==
    IF n < 10 THEN SubSeq("0123456789", n + 1, n + 1)
    ELSE Sprintd(n \div 10) \o SubSeq("0123456789", (n % 10) + 1, (n % 10) + 1)

\* The name SaveState generates for the panel at index i.
GeneratedName(i) == "panel_" \o Sprintd(i + 1) \o ".csv"

\* The loop of SaveState from index i on.  failAt is the index of the panel
\* whose CSV cannot be written, Len(ps) when the YAML file cannot be written
\* and -1 when every write succeeds; written lists the CSV files written so
\* far, in order, with the panel written to each.
RECURSIVE saveFrom(_, _, _, _)
saveFrom(ps, i, failAt, written) ==
    IF ~(i < Len(ps)) THEN [panels |-> ps, err |-> (failAt = i), written |-> written]
    ELSE LET p == IF ps[i + 1].Filename = ""
                  THEN [ps[i + 1] EXCEPT !.Filename = GeneratedName(i)]
                  ELSE ps[i + 1]
             named == [ps EXCEPT ![i + 1] = p]
         IN  IF failAt = i THEN [panels |-> named, err |-> TRUE, written |-> written]
             ELSE saveFrom(named, i + 1, failAt,
                           Append(written, [file |-> p.Filename, index |-> i]))

SaveState(ps, failAt) == saveFrom(ps, 0, failAt, <<>>)

MaxSaveCalls == 6

SavePoints == {<<40, 60>>, <<300, 60>>}

SaveIndexArgs == {0, 1}

\* A fresh canvas: NewCanvas with no state.yml to read.
InitSave ==
    /\ InitOps
    /\ panels = <<>>
    /\ camX = 0
    /\ camY = 0
    /\ call.recv.isNil

\* Ctrl+S
CallSaveState ==
    /\ pc = "ops"
    /\ tick < MaxSaveCalls
    /\ \E failAt \in -1 .. Len(panels) :
        /\ panels' = SaveState(panels, failAt).panels
        /\ call' = Call("SaveState", call.recv, call.recv, failAt, 0, "",
                        Path(WorkDir, "state.yml"), SaveState(panels, failAt).written,
                        SaveState(panels, failAt).err, panels)
    /\ tick' = tick + 1
    /\ UNCHANGED opsFrame

\* Delete Panel
SaveRemovePanelAt ==
    /\ pc = "ops"
    /\ tick < MaxSaveCalls
    /\ \E i \in SaveIndexArgs :
        /\ panels' = RemovePanelAt(panels, i)
        /\ call' = Call("RemovePanelAt", call.recv, call.recv, i, 0, "", Path(WorkDir, ""),
                        NoBounds, FALSE, panels)
    /\ tick' = tick + 1
    /\ UNCHANGED opsFrame

\* New Panel
SaveAddPanelAt ==
    /\ pc = "ops"
    /\ tick < MaxSaveCalls
    /\ Len(panels) < MaxPanels
    /\ \E pt \in SavePoints :
        /\ panels' = AddPanelAt(panels, pt[1], pt[2])
        /\ call' = Call("AddPanelAt", call.recv, call.recv, pt[1], pt[2], "",
                        Path(WorkDir, ""), NoBounds, FALSE, panels)
    /\ tick' = tick + 1
    /\ UNCHANGED opsFrame

NextSave ==
    \/ CallSaveState
    \/ SaveRemovePanelAt
    \/ SaveAddPanelAt

SpecSave == InitSave /\ [][NextSave]_vars

\* C28: after a successful SaveState no two panels of the collection have
\* the same Filename, and no CSV file is written twice during the save.
C28_SaveStateOwnFile ==
    (call.op = "SaveState" /\ ~call.err) =>
        /\ \A i, j \in 1 .. Len(panels) : i # j => panels[i].Filename # panels[j].Filename
        /\ \A i, j \in 1 .. Len(call.result) :
               i # j => call.result[i].file # call.result[j].file

\* ------------------------------------------------------------- removal claim
\* C29: RemovePanelAt with an index i of a panel removes exactly that panel:
\* one panel fewer, the panels below i keep their index and their fields, the
\* panels above i move down by one with their fields.
C29_RemovesExactlyPanelAt ==
    [][(IsCall("RemovePanelAt") /\ InBounds(panels, call'.a)) =>
          /\ Len(panels') = Len(panels) - 1
          /\ \A k \in Indices(panels') :
                 panels'[k + 1] = IF k < call'.a THEN panels[k + 1] ELSE panels[k + 2]]_vars

C29_Witness ==
    /\ call.op = "RemovePanelAt"
    /\ call.a = 0
    /\ Len(call.panelsBefore) = 3
    /\ call.panelsBefore[2] # call.panelsBefore[3]
    /\ panels = <<call.panelsBefore[2], call.panelsBefore[3]>>

\* ------------------------------------------------------------- the cell-reference codec
MaxCodecCalls == 2

CodecCols == {0, 1, 25, 26, 27, 51, 52, 701, 702, 703}

CodecRows == {0, 1, 8, 9, 10, 98, 99, 100}

\* Strings that are not the output of CellRef.
CodecStrings ==
    {<<>>, <<" ">>, <<"1", "2">>, <<"-", "1">>, <<" ", "7">>, <<"A">>, <<"a", " ">>,
     <<"A", "-">>, <<"A", "B">>, <<"A", " ", "x">>, <<"A", "1", "B">>, <<"A", "0">>,
     <<"a", "1">>, <<" ", "B", "2", " ">>, <<"b", " ", "2">>}

InitCodec ==
    /\ InitOps
    /\ panels = <<>>
    /\ camX = 0
    /\ camY = 0
    /\ call.recv.isNil

CallCellRef ==
    /\ pc = "ops"
    /\ tick < MaxCodecCalls
    /\ \E col \in CodecCols, row \in CodecRows :
        call' = Call("CellRef", call.recv, call.recv, col, row, <<>>, Path(WorkDir, ""),
                     CellRef(col, row), FALSE, panels)
    /\ tick' = tick + 1
    /\ UNCHANGED <<panels, opsFrame>>

\* ParseCellRef of the reference just built, or of another string.
CallParseCellRef ==
    /\ pc = "ops"
    /\ tick < MaxCodecCalls
    /\ \E ref \in CodecStrings \cup (IF call.op = "CellRef" THEN {call.result} ELSE {}) :
        call' = Call("ParseCellRef", call.recv, call.recv, 0, 0, ref, Path(WorkDir, ""),
                     [col |-> ParseCellRef(ref).col, row |-> ParseCellRef(ref).row],
                     ParseCellRef(ref).err, panels)
    /\ tick' = tick + 1
    /\ UNCHANGED <<panels, opsFrame>>

NextCodec ==
    \/ CallCellRef
    \/ CallParseCellRef

SpecCodec == InitCodec /\ [][NextCodec]_vars

\* The string starts, after the leading blanks, with a letter.
HasLeadingLetters(s) ==
    \E i \in DOMAIN s :
        /\ s[i] \in (Range(UpperSeq) \cup Range(LowerSeq))
        /\ \A j \in 1 .. (i - 1) : s[j] = " "

\* The string holds a decimal digit.
HasRowDigits(s) == \E i \in DOMAIN s : s[i] \in Range(DigitSeq)

\* C30: ParseCellRef of CellRef(col, row) returns (col, row) without an
\* error for col >= 0 and row >= 0, two different cells never get the same
\* reference, and ParseCellRef returns an error for a string with no leading
\* letters or no row digits.
C30_CellRefRoundTrip ==
    [][/\ (call.op = "CellRef" /\ IsCall("ParseCellRef") /\ call'.val = call.result) =>
              /\ ~call'.err
              /\ call'.result = [col |-> call.a, row |-> call.b]
       /\ IsCall("CellRef") =>
              \A col \in CodecCols, row \in CodecRows :
                  CellRef(col, row) = call'.result => (col = call'.a /\ row = call'.b)
       /\ (IsCall("ParseCellRef") /\ (~HasLeadingLetters(call'.val) \/ ~HasRowDigits(call'.val))) =>
              /\ call'.err
              /\ call'.result = [col |-> -1, row |-> -1]]_vars

C30_Witness ==
    /\ call.op = "ParseCellRef"
    /\ call.val = <<"A", "A", "1", "0">>
    /\ ~call.err
    /\ call.result = [col |-> 26, row |-> 9]

====
